---- MODULE Spec2Model ----
(***************************************************************************)
(* Model of the AGP Strategy Suite analysis core:                          *)
(*   - SetupAnalyzer   (agp_core/analysis/setup_analyzer.py)               *)
(*   - TelemetryAnalyzer behaviour detectors                               *)
(*                     (agp_core/setup/telemetry_analyzer.py)              *)
(*   - SetupCorrelator (agp_core/setup/setup_correlator.py)                *)
(*                                                                         *)
(* Numbers.  Python floats are IEEE-754 binary64.  Where the code adds or  *)
(* multiplies decimal constants (the parameter effects 0.35, 0.15, ...,    *)
(* the correlator's sums of squares) rounding decides the outcome, so      *)
(* those computations use the binary64 model below (53-bit significand,    *)
(* round to nearest, ties to even) on multi-limb naturals.  Quantities     *)
(* computed from telemetry samples are kept as integers in a fixed scale   *)
(* (slip ratio in 1/1000, grip in 1/100, driver inputs in 1/100) or as     *)
(* exact fractions <<num, den>>; the sample values used are integers in    *)
(* that scale and lie off the comparison boundaries' rounding range.       *)
(***************************************************************************)
EXTENDS Integers, Sequences, FiniteSets, TLC

(***************************************************************************)
(* Multi-limb naturals: little-endian sequences of limbs in 0..Base-1,     *)
(* no high zero limb; << >> is zero.                                       *)
(***************************************************************************)
LimbBits == 15
Base == 32768

\* 2^k for k in 0..LimbBits
Pow2(k) == 2 ^ k

RECURSIVE BTrim(_)
BTrim(a) == IF a = << >> THEN << >>
            ELSE IF a[Len(a)] = 0 THEN BTrim(SubSeq(a, 1, Len(a) - 1))
            ELSE a

BLimb(a, i) == IF i <= Len(a) THEN a[i] ELSE 0

RECURSIVE BFromNat(_)
BFromNat(n) == IF n = 0 THEN << >> ELSE <<n % Base>> \o BFromNat(n \div Base)

RECURSIVE BCmpFrom(_, _, _)
BCmpFrom(a, b, i) ==
    IF i = 0 THEN 0
    ELSE IF BLimb(a, i) > BLimb(b, i) THEN 1
    ELSE IF BLimb(a, i) < BLimb(b, i) THEN -1
    ELSE BCmpFrom(a, b, i - 1)

BCmp(a, b) == BCmpFrom(a, b, IF Len(a) > Len(b) THEN Len(a) ELSE Len(b))

RECURSIVE BAddFrom(_, _, _, _)
BAddFrom(a, b, i, carry) ==
    IF i > Len(a) /\ i > Len(b)
    THEN (IF carry = 0 THEN << >> ELSE <<carry>>)
    ELSE LET t == BLimb(a, i) + BLimb(b, i) + carry
         IN  <<t % Base>> \o BAddFrom(a, b, i + 1, t \div Base)

BAdd(a, b) == BTrim(BAddFrom(a, b, 1, 0))

\* a - b for a >= b
RECURSIVE BSubFrom(_, _, _, _)
BSubFrom(a, b, i, borrow) ==
    IF i > Len(a) THEN << >>
    ELSE LET t == BLimb(a, i) - BLimb(b, i) - borrow
         IN  IF t < 0 THEN <<t + Base>> \o BSubFrom(a, b, i + 1, 1)
             ELSE <<t>> \o BSubFrom(a, b, i + 1, 0)

BSub(a, b) == BTrim(BSubFrom(a, b, 1, 0))

\* a * k + carry for a limb k, from limb i on
RECURSIVE BMulLimbFrom(_, _, _, _)
BMulLimbFrom(a, k, i, carry) ==
    IF i > Len(a) THEN (IF carry = 0 THEN << >> ELSE <<carry>>)
    ELSE LET t == a[i] * k + carry
         IN  <<t % Base>> \o BMulLimbFrom(a, k, i + 1, t \div Base)

BMulLimb(a, k) == BTrim(BMulLimbFrom(a, k, 1, 0))

\* a * (the limbs of b from j down) + acc * Base^j, acc computed before the
\* next limb is taken
RECURSIVE BMulFrom(_, _, _, _)
BMulFrom(a, b, j, acc) ==
    IF j = 0 \/ Len(acc) < 0 THEN acc
    ELSE BMulFrom(a, b, j - 1,
                  BAdd(BMulLimb(a, b[j]), IF acc = << >> THEN << >> ELSE <<0>> \o acc))

BMul(a, b) == BMulFrom(a, b, Len(b), << >>)

RECURSIVE LimbBitLen(_)
LimbBitLen(x) == IF x = 0 THEN 0 ELSE 1 + LimbBitLen(x \div 2)

BBitLen(a) == IF a = << >> THEN 0
              ELSE (Len(a) - 1) * LimbBits + LimbBitLen(a[Len(a)])

RECURSIVE Zeros(_)
Zeros(n) == IF n = 0 THEN << >> ELSE <<0>> \o Zeros(n - 1)

\* a * 2^n
BShl(a, n) == IF a = << >> THEN << >>
              ELSE Zeros(n \div LimbBits) \o BMulLimb(a, Pow2(n % LimbBits))

\* floor(a / 2^n)
RECURSIVE BShrBitsFrom(_, _, _)
BShrBitsFrom(a, r, i) ==
    IF i > Len(a) THEN << >>
    ELSE <<(a[i] \div Pow2(r)) + (BLimb(a, i + 1) % Pow2(r)) * Pow2(LimbBits - r)>>
         \o BShrBitsFrom(a, r, i + 1)

BShr(a, n) ==
    LET d == n \div LimbBits
        r == n % LimbBits
        hi == IF d >= Len(a) THEN << >> ELSE SubSeq(a, d + 1, Len(a))
    IN  IF r = 0 THEN hi ELSE BTrim(BShrBitsFrom(hi, r, 1))

\* bit i (0 = least significant) of a
BBit(a, i) == (BLimb(a, i \div LimbBits + 1) \div Pow2(i % LimbBits)) % 2

\* some bit below position n is set
BLowNonzero(a, n) == BShl(BShr(a, n), n) # a

BIsOdd(a) == a # << >> /\ a[1] % 2 = 1

\* one bit of a long division by d: the remainder is doubled and, if d fits
\* in it, reduced by d; the quotient takes the bit
DivStep(d, st) ==
    LET r2 == BMulLimbFrom(st.rem, 2, 1, 0)
    IN  IF BCmp(r2, d) >= 0
        THEN [rem |-> BSub(r2, d), q |-> BMulLimbFrom(st.q, 2, 1, 1)]
        ELSE [rem |-> r2, q |-> BMulLimbFrom(st.q, 2, 1, 0)]

\* k bits of the long division, the first half of them and then the rest
RECURSIVE DivSteps(_, _, _)
DivSteps(d, st, k) ==
    IF k = 0 \/ Len(st.q) < 0 THEN st
    ELSE IF k = 1 THEN DivStep(d, st)
    ELSE DivSteps(d, DivSteps(d, st, k \div 2), k - k \div 2)

\* quotient and remainder of a * 2^i by d, for a < 2 * d
BDivMod(a, d, i) ==
    IF BCmp(a, d) >= 0 THEN DivSteps(d, [rem |-> BSub(a, d), q |-> <<1>>], i)
    ELSE DivSteps(d, [rem |-> a, q |-> << >>], i)

\* one bit of the square root of n, from the two bits of n at 2 * i: rem is
\* what is left of the bits of n read so far after taking root * root
SqrtStep(n, st) ==
    LET r4 == BMulLimbFrom(st.rem, 4, 1, 2 * BBit(n, 2 * st.i + 1) + BBit(n, 2 * st.i))
        trial == BMulLimbFrom(st.root, 4, 1, 1)
    IN  IF BCmp(r4, trial) >= 0
        THEN [rem |-> BSub(r4, trial), root |-> BMulLimbFrom(st.root, 2, 1, 1), i |-> st.i - 1]
        ELSE [rem |-> r4, root |-> BMulLimbFrom(st.root, 2, 1, 0), i |-> st.i - 1]

\* k bits of the square root, the first half of them and then the rest
RECURSIVE SqrtSteps(_, _, _)
SqrtSteps(n, st, k) ==
    IF k = 0 \/ Len(st.root) < 0 THEN st
    ELSE IF k = 1 THEN SqrtStep(n, st)
    ELSE SqrtSteps(n, SqrtSteps(n, st, k \div 2), k - k \div 2)

\* floor(sqrt(n)), one bit of the root for every two bits of n from the top
BIsqrt(n) ==
    SqrtSteps(n, [rem |-> << >>, root |-> << >>, i |-> (BBitLen(n) + 1) \div 2],
              (BBitLen(n) + 1) \div 2 + 1).root

(***************************************************************************)
(* IEEE-754 binary64 values (Python float): [s, m, e] stands for           *)
(* (-1)^s * m * 2^e with a 53-bit significand m (2^52 <= m < 2^53), or     *)
(* zero.  Every operation computes the exact result and rounds it to       *)
(* nearest, ties to even.  The exponent is unbounded: the values of the    *)
(* model stay far from overflow and from the subnormal range.              *)
(***************************************************************************)
Precision == 53

FZero == [s |-> 0, m |-> << >>, e |-> 0]

FRound(s, m, e) ==
    LET L == BBitLen(m)
    IN  IF L = 0 THEN FZero
        ELSE IF L <= Precision
        THEN [s |-> s, m |-> BShl(m, Precision - L), e |-> e - (Precision - L)]
        ELSE LET k == L - Precision
                 q == BShr(m, k)
                 half == BBit(m, k - 1) = 1
                 sticky == k > 1 /\ BLowNonzero(m, k - 1)
                 up == half /\ (sticky \/ BIsOdd(q))
                 q2 == IF up THEN BAdd(q, <<1>>) ELSE q
             IN  IF BBitLen(q2) > Precision
                 THEN [s |-> s, m |-> BShr(q2, 1), e |-> e + k + 1]
                 ELSE [s |-> s, m |-> q2, e |-> e + k]

FFromInt(n) == FRound(IF n < 0 THEN 1 ELSE 0, BFromNat(IF n < 0 THEN -n ELSE n), 0)

FIsZero(x) == x.m = << >>

\* -1, 0 or 1
FSign(x) == IF x.m = << >> THEN 0 ELSE IF x.s = 1 THEN -1 ELSE 1

FNeg(x) == IF x.m = << >> THEN x ELSE [x EXCEPT !.s = 1 - x.s]

FAbs(x) == [x EXCEPT !.s = 0]

FAdd(x, y) ==
    IF x.m = << >> THEN y
    ELSE IF y.m = << >> THEN x
    ELSE LET e == IF x.e < y.e THEN x.e ELSE y.e
             mx == BShl(x.m, x.e - e)
             my == BShl(y.m, y.e - e)
             c == BCmp(mx, my)
         IN  IF x.s = y.s THEN FRound(x.s, BAdd(mx, my), e)
             ELSE IF c = 0 THEN FZero
             ELSE IF c > 0 THEN FRound(x.s, BSub(mx, my), e)
             ELSE FRound(y.s, BSub(my, mx), e)

FSub(x, y) == FAdd(x, FNeg(y))

FMul(x, y) ==
    IF x.m = << >> \/ y.m = << >> THEN FZero
    ELSE FRound((x.s + y.s) % 2, BMul(x.m, y.m), x.e + y.e)

\* x / y for y # 0
FDiv(x, y) ==
    IF x.m = << >> THEN FZero
    ELSE LET d == BDivMod(x.m, y.m, Precision + 3)
             m == BAdd(BMulLimb(d.q, 2), IF d.rem = << >> THEN << >> ELSE <<1>>)
         IN  FRound((x.s + y.s) % 2, m, x.e - y.e - (Precision + 4))

\* math.sqrt(x) for x >= 0
FSqrt(x) ==
    IF x.m = << >> THEN FZero
    ELSE LET k == IF (x.e - (Precision + 5)) % 2 = 0 THEN Precision + 5 ELSE Precision + 6
             n == BShl(x.m, k)
             r == BIsqrt(n)
             m == BAdd(BMulLimb(r, 2), IF BMul(r, r) = n THEN << >> ELSE <<1>>)
         IN  FRound(0, m, (x.e - k) \div 2 - 1)

FLt(x, y) == FSign(FSub(x, y)) < 0

FEq(x, y) == FSign(FSub(x, y)) = 0

FMin(x, y) == IF FLt(y, x) THEN y ELSE x

\* the float m * 2^e
FLit(s, m, e) == FRound(s, m, e)

(***************************************************************************)
(* Exact fractions <<num, den>> with den > 0.                              *)
(***************************************************************************)
Frac(n, d) == <<n, d>>
RLt(a, b) == a[1] * b[2] < b[1] * a[2]
RLe(a, b) == a[1] * b[2] <= b[1] * a[2]
REq(a, b) == a[1] * b[2] = b[1] * a[2]
RMin1(a) == IF a[1] > a[2] THEN Frac(1, 1) ELSE a
Abs(x) == IF x < 0 THEN -x ELSE x
Min(a, b) == IF a < b THEN a ELSE b
Max(a, b) == IF a > b THEN a ELSE b

\* sorted(s, key=..., reverse=True): stable, Gt is the strict order of the keys.
\* s[i] goes before the first later element that is not greater than it.
RECURSIVE SortFrom(_, _, _)
SortFrom(Gt(_, _), s, i) ==
    IF i > Len(s) THEN << >>
    ELSE LET rest == SortFrom(Gt, s, i + 1)
             pos == CHOOSE k \in 1..(Len(rest) + 1) :
                       /\ \A j \in 1..(k - 1) : Gt(rest[j], s[i])
                       /\ k <= Len(rest) => ~Gt(rest[k], s[i])
         IN  SubSeq(rest, 1, pos - 1) \o <<s[i]>> \o SubSeq(rest, pos, Len(rest))

StableSortDesc(s, Gt(_, _)) == SortFrom(Gt, s, 1)

Take(s, n) == SubSeq(s, 1, Min(n, Len(s)))

(***************************************************************************)
(* SetupAnalyzer: the problem kinds and the parameter knowledge base.      *)
(* Effects are written in hundredths (-35 is the literal -0.35).           *)
(***************************************************************************)
Problem ==
    {"UNDERSTEER_ENTRY", "UNDERSTEER_MID", "UNDERSTEER_EXIT",
     "OVERSTEER_ENTRY", "OVERSTEER_MID", "OVERSTEER_EXIT",
     "WHEELSPIN", "WHEEL_LOCK", "INSTABILITY_HIGH_SPEED",
     "TIRE_OVERHEAT_FRONT", "TIRE_OVERHEAT_REAR",
     "TIRE_COLD_FRONT", "TIRE_COLD_REAR",
     "BRAKE_OVERHEAT_FRONT", "BRAKE_OVERHEAT_REAR",
     "EXCESSIVE_ROLL", "BOTTOMING", "POOR_TRACTION"}

parameters ==
  <<
    [name |-> "front_spring", display_name |-> "Ressort Avant",
     effects |-> << <<"UNDERSTEER_ENTRY", -25>>,
                   <<"UNDERSTEER_MID", -15>>,
                   <<"OVERSTEER_EXIT", 15>>,
                   <<"TIRE_OVERHEAT_FRONT", 10>>,
                   <<"INSTABILITY_HIGH_SPEED", -10>> >>],
    [name |-> "rear_spring", display_name |-> "Ressort Arriere",
     effects |-> << <<"UNDERSTEER_ENTRY", 15>>,
                   <<"OVERSTEER_EXIT", -30>>,
                   <<"POOR_TRACTION", 15>>,
                   <<"TIRE_OVERHEAT_REAR", 10>> >>],
    [name |-> "front_slow_bump", display_name |-> "Bump Lent AV",
     effects |-> << <<"UNDERSTEER_ENTRY", -20>>,
                   <<"UNDERSTEER_MID", -10>>,
                   <<"INSTABILITY_HIGH_SPEED", -10>> >>],
    [name |-> "front_fast_bump", display_name |-> "Bump Rapide AV",
     effects |-> << <<"BOTTOMING", -20>> >>],
    [name |-> "rear_slow_bump", display_name |-> "Bump Lent AR",
     effects |-> << <<"OVERSTEER_EXIT", -15>>,
                   <<"POOR_TRACTION", 12>>,
                   <<"WHEELSPIN", 10>> >>],
    [name |-> "rear_fast_bump", display_name |-> "Bump Rapide AR",
     effects |-> << <<"BOTTOMING", -15>>,
                   <<"POOR_TRACTION", 8>> >>],
    [name |-> "front_slow_rebound", display_name |-> "Detente Lente AV",
     effects |-> << <<"UNDERSTEER_ENTRY", 18>>,
                   <<"INSTABILITY_HIGH_SPEED", -15>> >>],
    [name |-> "front_fast_rebound", display_name |-> "Detente Rapide AV",
     effects |-> << <<"INSTABILITY_HIGH_SPEED", -10>> >>],
    [name |-> "rear_slow_rebound", display_name |-> "Detente Lente AR",
     effects |-> << <<"OVERSTEER_ENTRY", -20>>,
                   <<"OVERSTEER_EXIT", 12>>,
                   <<"POOR_TRACTION", -8>> >>],
    [name |-> "rear_fast_rebound", display_name |-> "Detente Rapide AR",
     effects |-> << <<"INSTABILITY_HIGH_SPEED", -8>> >>],
    [name |-> "front_arb", display_name |-> "Barre Anti-Roulis AV",
     effects |-> << <<"UNDERSTEER_ENTRY", -30>>,
                   <<"UNDERSTEER_MID", -35>>,
                   <<"OVERSTEER_EXIT", 20>>,
                   <<"EXCESSIVE_ROLL", -30>>,
                   <<"TIRE_OVERHEAT_FRONT", 8>> >>],
    [name |-> "rear_arb", display_name |-> "Barre Anti-Roulis AR",
     effects |-> << <<"UNDERSTEER_ENTRY", 20>>,
                   <<"UNDERSTEER_MID", 25>>,
                   <<"OVERSTEER_EXIT", -35>>,
                   <<"OVERSTEER_ENTRY", -15>>,
                   <<"EXCESSIVE_ROLL", -25>>,
                   <<"POOR_TRACTION", 12>> >>],
    [name |-> "front_camber", display_name |-> "Carrossage AV",
     effects |-> << <<"UNDERSTEER_MID", -25>>,
                   <<"TIRE_OVERHEAT_FRONT", 15>> >>],
    [name |-> "rear_camber", display_name |-> "Carrossage AR",
     effects |-> << <<"OVERSTEER_MID", -20>>,
                   <<"TIRE_OVERHEAT_REAR", 15>>,
                   <<"POOR_TRACTION", 8>> >>],
    [name |-> "front_toe", display_name |-> "Pincement AV",
     effects |-> << <<"UNDERSTEER_ENTRY", 15>>,
                   <<"INSTABILITY_HIGH_SPEED", -20>>,
                   <<"TIRE_OVERHEAT_FRONT", 10>> >>],
    [name |-> "rear_toe", display_name |-> "Pincement AR",
     effects |-> << <<"OVERSTEER_EXIT", -25>>,
                   <<"INSTABILITY_HIGH_SPEED", -30>>,
                   <<"POOR_TRACTION", -10>>,
                   <<"TIRE_OVERHEAT_REAR", 10>> >>],
    [name |-> "front_wing", display_name |-> "Aileron AV",
     effects |-> << <<"UNDERSTEER_MID", -20>>,
                   <<"UNDERSTEER_ENTRY", -15>> >>],
    [name |-> "rear_wing", display_name |-> "Aileron AR",
     effects |-> << <<"OVERSTEER_MID", -30>>,
                   <<"OVERSTEER_EXIT", -20>>,
                   <<"INSTABILITY_HIGH_SPEED", -35>>,
                   <<"POOR_TRACTION", -20>> >>],
    [name |-> "front_ride_height", display_name |-> "Hauteur Caisse AV",
     effects |-> << <<"UNDERSTEER_MID", 10>>,
                   <<"BOTTOMING", -30>> >>],
    [name |-> "rear_ride_height", display_name |-> "Hauteur Caisse AR",
     effects |-> << <<"OVERSTEER_MID", 10>>,
                   <<"BOTTOMING", -25>>,
                   <<"POOR_TRACTION", 8>> >>],
    [name |-> "diff_power", display_name |-> "Diff Puissance",
     effects |-> << <<"POOR_TRACTION", -25>>,
                   <<"WHEELSPIN", -15>>,
                   <<"OVERSTEER_EXIT", 30>> >>],
    [name |-> "diff_coast", display_name |-> "Diff Deceleration",
     effects |-> << <<"OVERSTEER_ENTRY", 25>>,
                   <<"INSTABILITY_HIGH_SPEED", 10>> >>],
    [name |-> "diff_preload", display_name |-> "Precharge Diff",
     effects |-> << <<"POOR_TRACTION", -10>>,
                   <<"OVERSTEER_EXIT", 8>> >>],
    [name |-> "brake_bias", display_name |-> "Repartition Freinage",
     effects |-> << <<"OVERSTEER_ENTRY", -35>>,
                   <<"UNDERSTEER_ENTRY", 25>>,
                   <<"WHEEL_LOCK", -20>>,
                   <<"BRAKE_OVERHEAT_FRONT", 15>>,
                   <<"BRAKE_OVERHEAT_REAR", -15>> >>],
    [name |-> "front_pressure", display_name |-> "Pression AV",
     effects |-> << <<"UNDERSTEER_MID", 12>>,
                   <<"TIRE_OVERHEAT_FRONT", -15>>,
                   <<"TIRE_COLD_FRONT", 20>> >>],
    [name |-> "rear_pressure", display_name |-> "Pression AR",
     effects |-> << <<"OVERSTEER_MID", 8>>,
                   <<"POOR_TRACTION", 10>>,
                   <<"TIRE_OVERHEAT_REAR", -12>>,
                   <<"TIRE_COLD_REAR", 18>> >>]
  >>

\* the binary64 value of a two-decimal literal n/100, as Python parses it
Literal100 == [n \in 0..100 |-> FDiv(FFromInt(n), FFromInt(100))]

EffectFloat(v) == IF v < 0 THEN FNeg(Literal100[-v]) ELSE Literal100[v]

\* param.effects.get(problem, 0), in hundredths
EffectOn(param, problem) ==
    LET hits == {i \in 1..Len(param.effects) : param.effects[i][1] = problem}
    IN  IF hits = {} THEN 0 ELSE param.effects[CHOOSE i \in hits : TRUE][2]

\* scores are kept in units of 1/6400: |effect| halved up to six times
ScoreUnit == 64

\* the conflict test of _find_solutions for one effect of the candidate
Conflicts(eff, applied_effects) ==
    /\ applied_effects[eff[1]].present
    /\ \/ eff[2] > 0 /\ FSign(applied_effects[eff[1]].value) < 0
       \/ eff[2] < 0 /\ FSign(applied_effects[eff[1]].value) > 0

RECURSIVE Halve(_, _)
Halve(score, k) == IF k = 0 THEN score ELSE Halve(score \div 2, k - 1)

\* one candidate of _find_solutions: its score after the conflict penalties
PenalizedScore(param, problem, applied_effects) ==
    LET k == Cardinality({i \in 1..Len(param.effects) :
                            Conflicts(param.effects[i], applied_effects)})
    IN  Halve(Abs(EffectOn(param, problem)) * ScoreUnit, k)

ScoreGt(a, b) == a.score > b.score

\* the loop of _find_solutions over self.parameters, from index i on
RECURSIVE Candidates(_, _, _)
Candidates(problem, applied_effects, i) ==
    IF i > Len(parameters) THEN << >>
    ELSE LET effect == EffectOn(parameters[i], problem)
             score == PenalizedScore(parameters[i], problem, applied_effects)
         IN  (IF effect # 0 /\ score > 10 * ScoreUnit
              THEN <<[name |-> parameters[i].name, score |-> score,
                      direction |-> IF effect < 0 THEN "increase" ELSE "decrease"]>>
              ELSE << >>) \o Candidates(problem, applied_effects, i + 1)

_find_solutions(problem, applied_effects) ==
    StableSortDesc(Candidates(problem, applied_effects, 1), ScoreGt)

ParamByName(name) == parameters[CHOOSE i \in 1..Len(parameters) : parameters[i].name = name]

\* TLC evaluates operator arguments on demand; Now(v) makes it evaluate v here,
\* so that long loops do not pile up unevaluated arguments
Now(v) == v = v

\* applied_effects = {}: a dict as a function with a presence flag per key
NoEffects == [p \in Problem |-> [present |-> FALSE, value |-> FZero]]

\* applied_effects[p] = applied_effects.get(p, 0) + eff_value * mult, for every
\* effect of the parameter from index i on
RECURSIVE TrackEffects(_, _, _, _)
TrackEffects(applied_effects, effects, mult, i) ==
    IF i > Len(effects) \/ ~Now(applied_effects) THEN applied_effects
    ELSE LET p == effects[i][1]
             new == FAdd(applied_effects[p].value, EffectFloat(effects[i][2] * mult))
         IN  TrackEffects([applied_effects EXCEPT ![p] = [present |-> TRUE, value |-> new]],
                          effects, mult, i + 1)

SeverityOf(problems, problem) ==
    LET hits == {i \in 1..Len(problems) : problems[i].problem = problem}
    IN  IF hits = {} THEN Frac(0, 1) ELSE problems[CHOOSE i \in hits : TRUE].severity

\* the problems the change would worsen and that the lap already shows
_check_side_effects(param, direction, analysis) ==
    LET mult == IF direction = "increase" THEN 1 ELSE -1
    IN  {param.effects[i][1] : i \in {j \in 1..Len(param.effects) :
            /\ param.effects[j][2] * mult > 10
            /\ \E k \in 1..Len(analysis.problems) :
                  /\ analysis.problems[k].problem = param.effects[j][1]
                  /\ RLt(Frac(3, 10), analysis.problems[k].severity)}}

\* no setup file is loaded: _get_setup_value returns None
_suggest_value(direction) ==
    IF direction = "increase" THEN "+1-2 clicks/points" ELSE "-1-2 clicks/points"

\* int(severity * 10)
Priority(severity) == (severity[1] * 10) \div severity[2]

SeverityGt(a, b) == RLt(b.severity, a.severity)
\* sorted(recommendations, key=priority) without reverse=True
PriorityLt(a, b) == a.priority < b.priority

PriorityGt(a, b) == a.priority > b.priority

MaxRecommendations == 5
MaxProblems == 5
SolutionsPerProblem == 2

\* the inner loop over solutions[:2] for one problem
RECURSIVE ApplySolutions(_, _, _, _, _)
ApplySolutions(acc, analysis, entry, solutions, j) ==
    IF j > Len(solutions) \/ ~Now(acc) THEN acc
    ELSE LET sol == solutions[j]
             param == ParamByName(sol.name)
             rec == [parameter |-> param.display_name,
                     direction |-> sol.direction,
                     value |-> _suggest_value(sol.direction),
                     priority |-> Priority(entry.severity),
                     addresses |-> entry.problem,
                     side_effects |-> _check_side_effects(param, sol.direction, analysis),
                     score |-> sol.score,
                     severity |-> entry.severity]
             mult == IF sol.direction = "increase" THEN 1 ELSE -1
         IN  ApplySolutions(
                 [acc EXCEPT !.recommendations = Append(@, rec),
                             !.applied_effects = TrackEffects(@, param.effects, mult, 1)],
                 analysis, entry, solutions, j + 1)

\* the loop over sorted_problems[:5]
RECURSIVE ConsiderProblems(_, _, _, _)
ConsiderProblems(acc, analysis, sorted_problems, i) ==
    IF i > Len(sorted_problems) \/ ~Now(acc) THEN acc
    ELSE LET entry == sorted_problems[i]
         IN  IF RLt(entry.severity, Frac(2, 10))
             THEN ConsiderProblems(acc, analysis, sorted_problems, i + 1)
             ELSE LET solutions == _find_solutions(entry.problem, acc.applied_effects)
                      logged == [acc EXCEPT !.considered = Append(@,
                                    [problem |-> entry.problem,
                                     applied_effects |-> acc.applied_effects,
                                     solutions |-> solutions])]
                  IN  ConsiderProblems(
                          ApplySolutions(logged, analysis, entry,
                                         Take(solutions, SolutionsPerProblem), 1),
                          analysis, sorted_problems, i + 1)

\* the de-duplication loop without its "not in seen" test
KeepAll(recs, seen, i) == SubSeq(recs, i, Len(recs))

\* the de-duplication loop: first occurrence of each parameter, in order
RECURSIVE Unique(_, _, _)
Unique(recs, seen, i) ==
    IF i > Len(recs) THEN << >>
    ELSE IF recs[i].parameter \in seen THEN Unique(recs, seen, i + 1)
    ELSE <<recs[i]>> \o Unique(recs, seen \cup {recs[i].parameter}, i + 1)

\* generate_recommendations on the latest lap analysis.  The result carries
\* the returned list and, for the checks, the list before de-duplication and
\* what each _find_solutions call saw and returned.
RunRecommendations(analysis) ==
    LET sorted_problems == StableSortDesc(analysis.problems, SeverityGt)
        acc == ConsiderProblems(
                   [recommendations |-> << >>, applied_effects |-> NoEffects,
                    considered |-> << >>],
                   analysis, Take(sorted_problems, MaxProblems), 1)
        unique_recs == Unique(StableSortDesc(acc.recommendations, PriorityGt), {}, 1)
    IN  [returned |-> Take(unique_recs, MaxRecommendations),
         generated |-> acc.recommendations,
         considered |-> acc.considered]

(***************************************************************************)
(* SetupAnalyzer: samples.                                                 *)
(* A telemetry record carries the fields add_sample reads that decide the  *)
(* analysis: lap_number, speed (m/s), speed_kmh, throttle, brake and       *)
(* steering (hundredths), the four wheel rotations (rad/s), grip           *)
(* (hundredths), tire_temp, brake_temp, ride_height (mm) and the two       *)
(* downforces.  Wheels are ordered FL, FR, RL, RR.                         *)
(* Buffers are run-length encoded: a run [sample, n] stands for n equal    *)
(* consecutive samples.                                                    *)
(***************************************************************************)
_classify_phase(data) ==
    LET steering == Abs(data.steering)
    IN  IF data.brake > 80 /\ steering < 5 THEN "BRAKING"
        ELSE IF data.brake > 15 /\ steering > 3 THEN "ENTRY"
        ELSE IF data.throttle > 70 /\ steering > 3 THEN "EXIT"
        ELSE IF data.throttle > 90 /\ steering < 3 THEN "ACCELERATION"
        ELSE IF steering > 8 THEN "MID"
        ELSE "STRAIGHT"

\* (abs(rotation) * 0.325 / speed) - 1 in thousandths; the records of the model
\* have speeds that divide 325 * rotation
_calculate_slip_ratios(data) ==
    [i \in 1..4 |-> IF data.speed > 1
                    THEN (325 * Abs(data.rotation[i])) \div data.speed - 1000
                    ELSE 0]

\* the Sample built by add_sample
MakeSample(data) ==
    [phase |-> _classify_phase(data),
     speed |-> data.speed_kmh,
     steering |-> Abs(data.steering),
     tire_temp |-> data.tire_temp,
     grip |-> data.grip,
     slip_ratio |-> _calculate_slip_ratios(data),
     brake_temp |-> data.brake_temp,
     ride_height |-> data.ride_height,
     front_downforce |-> data.front_downforce,
     rear_downforce |-> data.rear_downforce,
     lap_number |-> data.lap_number]

RECURSIVE SeqSum(_)
SeqSum(s) == IF s = << >> THEN 0 ELSE s[1] + SeqSum(Tail(s))

\* len() of a run-length encoded buffer
Count(runs) == SeqSum([i \in 1..Len(runs) |-> runs[i].n])

\* the runs of the samples that satisfy P
Select(runs, P(_)) == SelectSeq(runs, LAMBDA r : P(r.sample))

\* append n copies of a sample
AppendRun(runs, sample, n) ==
    IF n = 0 THEN runs
    ELSE IF runs # << >> /\ runs[Len(runs)].sample = sample
    THEN [runs EXCEPT ![Len(runs)].n = @ + n]
    ELSE Append(runs, [sample |-> sample, n |-> n])

\* drop the k oldest samples
RECURSIVE DropOldest(_, _)
DropOldest(runs, k) ==
    IF k <= 0 \/ runs = << >> THEN runs
    ELSE IF runs[1].n > k THEN [runs EXCEPT ![1].n = @ - k]
    ELSE DropOldest(Tail(runs), k - runs[1].n)

MaxSamples == 5000

\* list.append, n times: no maxlen
ListAppend(runs, sample, n) == AppendRun(runs, sample, n)

\* deque(maxlen=5000).append, n times
DequeAppend(runs, sample, n) ==
    LET all == AppendRun(runs, sample, n)
    IN  DropOldest(all, Count(all) - MaxSamples)

(***************************************************************************)
(* SetupAnalyzer: lap analysis.                                            *)
(***************************************************************************)
optimal_ranges ==
    [GT3  |-> [tire_temp |-> <<75, 95, 85>>, brake_temp_max |-> 700],
     LMP2 |-> [tire_temp |-> <<80, 95, 87>>, brake_temp_max |-> 750],
     LMH  |-> [tire_temp |-> <<82, 98, 90>>, brake_temp_max |-> 780]]

\* the three-way classification of one sample in _analyze_behavior
BehaviorOf(s) ==
    LET front_grip2 == s.grip[1] + s.grip[2]
        rear_grip2 == s.grip[3] + s.grip[4]
        front_slip2 == Abs(s.slip_ratio[1]) + Abs(s.slip_ratio[2])
        rear_slip2 == Abs(s.slip_ratio[3]) + Abs(s.slip_ratio[4])
    IN  IF front_grip2 < rear_grip2 - 6 \/ front_slip2 > rear_slip2 + 30
        THEN "understeer"
        ELSE IF rear_grip2 < front_grip2 - 6 \/ rear_slip2 > front_slip2 + 30
        THEN "oversteer"
        ELSE "neutral"

MinPhaseSamples == 10

\* PhaseBehavior without the test on the number of phase samples
PhaseBehaviorAnyCount(samples, phase) ==
    LET phase_samples == Select(samples, LAMBDA s : s.phase = phase)
        total == Count(phase_samples)
        under == Count(Select(phase_samples, LAMBDA s : BehaviorOf(s) = "understeer"))
        over == Count(Select(phase_samples, LAMBDA s : BehaviorOf(s) = "oversteer"))
    IN  IF total = 0
        THEN [understeer |-> Frac(0, 1), oversteer |-> Frac(0, 1), neutral |-> Frac(1, 1)]
        ELSE [understeer |-> Frac(under, total), oversteer |-> Frac(over, total),
              neutral |-> Frac(total - under - over, total)]

\* the loop body of _analyze_behavior for one phase
PhaseBehavior(samples, phase) ==
    LET phase_samples == Select(samples, LAMBDA s : s.phase = phase)
        total == Count(phase_samples)
        under == Count(Select(phase_samples, LAMBDA s : BehaviorOf(s) = "understeer"))
        over == Count(Select(phase_samples, LAMBDA s : BehaviorOf(s) = "oversteer"))
    IN  IF total < MinPhaseSamples
        THEN [understeer |-> Frac(0, 1), oversteer |-> Frac(0, 1), neutral |-> Frac(1, 1)]
        ELSE [understeer |-> Frac(under, total), oversteer |-> Frac(over, total),
              neutral |-> Frac(total - under - over, total)]

_analyze_behavior(samples) ==
    [ENTRY |-> PhaseBehavior(samples, "ENTRY"),
     MID |-> PhaseBehavior(samples, "MID"),
     EXIT |-> PhaseBehavior(samples, "EXIT")]

Max4(t) == Max(Max(t[1], t[2]), Max(t[3], t[4]))
Min4(t) == Min(Min(t[1], t[2]), Min(t[3], t[4]))

RECURSIVE SeqMax(_)
SeqMax(s) == IF Len(s) = 1 THEN s[1] ELSE Max(s[1], SeqMax(Tail(s)))

\* sum and max of f over every sample of the buffer
SumOver(runs, f(_)) == SeqSum([i \in 1..Len(runs) |-> f(runs[i].sample) * runs[i].n])
MaxOver(runs, f(_)) == SeqMax([i \in 1..Len(runs) |-> f(runs[i].sample)])

_calc_wheelspin_pct(samples) ==
    LET exit_samples == Select(samples, LAMBDA s : s.phase = "EXIT")
        spin == Select(exit_samples,
                    LAMBDA s : Abs(s.slip_ratio[3]) + Abs(s.slip_ratio[4]) > 160)
    IN  IF exit_samples = << >> THEN Frac(0, 1)
        ELSE Frac(Count(spin), Count(exit_samples))

_calc_lockup_pct(samples) ==
    LET brake_samples == Select(samples, LAMBDA s : s.phase \in {"BRAKING", "ENTRY"})
        lock == Select(brake_samples, LAMBDA s : Min4(s.slip_ratio) < -100)
    IN  IF brake_samples = << >> THEN Frac(0, 1)
        ELSE Frac(Count(lock), Count(brake_samples))

MinHighSpeedSamples == 20

\* max(0, 1 - corrections * 8) with corrections the mean steering
_calc_stability_score(samples) ==
    LET high_speed == Select(samples, LAMBDA s : s.phase = "STRAIGHT" /\ s.speed > 180)
        n == Count(high_speed)
        steer == SumOver(high_speed, LAMBDA s : s.steering)
    IN  IF n < MinHighSpeedSamples THEN Frac(1, 1)
        ELSE IF 8 * steer > 100 * n THEN Frac(0, 1)
        ELSE Frac(100 * n - 8 * steer, 100 * n)

\* the entry problems[p] = sev, or nothing when the condition fails
Entry(cond, p, sev) == IF cond THEN <<[problem |-> p, severity |-> sev]>> ELSE << >>

\* _detect_problems, behavior problems
BehaviorProblems(behavior) ==
    Entry(RLt(Frac(35, 100), behavior.ENTRY.understeer),
          "UNDERSTEER_ENTRY", behavior.ENTRY.understeer)
    \o Entry(RLt(Frac(4, 10), behavior.MID.understeer),
          "UNDERSTEER_MID", behavior.MID.understeer)
    \o Entry(RLt(Frac(35, 100), behavior.EXIT.understeer),
          "UNDERSTEER_EXIT", behavior.EXIT.understeer)
    \o Entry(RLt(Frac(3, 10), behavior.ENTRY.oversteer),
          "OVERSTEER_ENTRY", behavior.ENTRY.oversteer)
    \o Entry(RLt(Frac(35, 100), behavior.MID.oversteer),
          "OVERSTEER_MID", behavior.MID.oversteer)
    \o Entry(RLt(Frac(3, 10), behavior.EXIT.oversteer),
          "OVERSTEER_EXIT", behavior.EXIT.oversteer)

\* (temp - bound) / 10 without the min
OverheatUnclamped(temp, bound) == Frac(temp[1] - bound * temp[2], 10 * temp[2])

\* min(1, (temp - bound) / 10) and min(1, (bound - temp) / 10) for a fraction temp
OverheatSeverity(temp, bound) == RMin1(Frac(temp[1] - bound * temp[2], 10 * temp[2]))
ColdSeverity(temp, bound) == RMin1(Frac(bound * temp[2] - temp[1], 10 * temp[2]))

\* _detect_problems, tire temps
TireTempProblems(samples, ranges) ==
    LET len == Count(samples)
        front_temp == Frac(SumOver(samples, LAMBDA s : s.tire_temp[1] + s.tire_temp[2]), len * 2)
        rear_temp == Frac(SumOver(samples, LAMBDA s : s.tire_temp[3] + s.tire_temp[4]), len * 2)
    IN  Entry(RLt(Frac(ranges.tire_temp[2], 1), front_temp), "TIRE_OVERHEAT_FRONT",
              OverheatSeverity(front_temp, ranges.tire_temp[2]))
        \o Entry(RLt(front_temp, Frac(ranges.tire_temp[1], 1)), "TIRE_COLD_FRONT",
              ColdSeverity(front_temp, ranges.tire_temp[1]))
        \o Entry(RLt(Frac(ranges.tire_temp[2], 1), rear_temp), "TIRE_OVERHEAT_REAR",
              OverheatSeverity(rear_temp, ranges.tire_temp[2]))
        \o Entry(RLt(rear_temp, Frac(ranges.tire_temp[1], 1)), "TIRE_COLD_REAR",
              ColdSeverity(rear_temp, ranges.tire_temp[1]))

\* _detect_problems, brake temps
BrakeTempProblems(samples, ranges) ==
    LET front_brake_max == MaxOver(samples, LAMBDA s : Max(s.brake_temp[1], s.brake_temp[2]))
        rear_brake_max == MaxOver(samples, LAMBDA s : Max(s.brake_temp[3], s.brake_temp[4]))
    IN  Entry(front_brake_max > ranges.brake_temp_max, "BRAKE_OVERHEAT_FRONT",
              RMin1(Frac(front_brake_max - ranges.brake_temp_max, 100)))
        \o Entry(rear_brake_max > ranges.brake_temp_max, "BRAKE_OVERHEAT_REAR",
              RMin1(Frac(rear_brake_max - ranges.brake_temp_max, 100)))

\* _detect_problems, traction and lockup
TractionProblems(samples) ==
    LET wheelspin == _calc_wheelspin_pct(samples)
        lockup == _calc_lockup_pct(samples)
    IN  Entry(RLt(Frac(1, 10), wheelspin), "WHEELSPIN",
              RMin1(Frac(wheelspin[1] * 2, wheelspin[2])))
        \o Entry(RLt(Frac(1, 10), wheelspin), "POOR_TRACTION",
              RMin1(Frac(wheelspin[1] * 3, wheelspin[2] * 2)))
        \o Entry(RLt(Frac(1, 10), lockup), "WHEEL_LOCK",
              RMin1(Frac(lockup[1] * 2, lockup[2])))

\* _detect_problems, stability, roll and bottoming
ChassisProblems(samples) ==
    LET stability == _calc_stability_score(samples)
        max_roll == Max(MaxOver(samples, LAMBDA s : Abs(s.ride_height[1] - s.ride_height[2])),
                        MaxOver(samples, LAMBDA s : Abs(s.ride_height[3] - s.ride_height[4])))
        bottoming == Frac(Count(Select(samples, LAMBDA s : Min4(s.ride_height) < 5)),
                          Count(samples))
    IN  Entry(RLt(stability, Frac(7, 10)), "INSTABILITY_HIGH_SPEED",
              Frac(stability[2] - stability[1], stability[2]))
        \o Entry(max_roll > 12, "EXCESSIVE_ROLL", RMin1(Frac(max_roll - 12, 10)))
        \o Entry(RLt(Frac(5, 100), bottoming), "BOTTOMING",
              RMin1(Frac(bottoming[1] * 5, bottoming[2])))

\* problems as the dict's items in insertion order
_detect_problems(samples, behavior, vehicle_category) ==
    LET ranges == optimal_ranges[vehicle_category]
    IN  BehaviorProblems(behavior)
        \o TireTempProblems(samples, ranges)
        \o BrakeTempProblems(samples, ranges)
        \o TractionProblems(samples)
        \o ChassisProblems(samples)

MinLapSamples == 100
MaxLapAnalyses == 20

\* _analyze_lap: the analyzer with the analysis of current_lap_samples appended.
\* The fields samples and vehicle_category are not fields of LapAnalysis: they
\* keep, for the checks, the list that was analysed and the category that
\* chose the ranges.
_analyze_lap(a) ==
    LET samples == a.current_lap_samples
        behavior == _analyze_behavior(samples)
        analysis == [lap_number |-> a.current_lap,
                     sample_count |-> Count(samples),
                     behavior |-> behavior,
                     problems |-> _detect_problems(samples, behavior, a.vehicle_category),
                     wheelspin_pct |-> _calc_wheelspin_pct(samples),
                     lockup_pct |-> _calc_lockup_pct(samples),
                     stability_score |-> _calc_stability_score(samples),
                     samples |-> samples,
                     vehicle_category |-> a.vehicle_category]
        appended == Append(a.lap_analyses, analysis)
    IN  IF Count(samples) < MinLapSamples THEN a
        ELSE [a EXCEPT !.lap_analyses =
                 IF Len(appended) > MaxLapAnalyses THEN Tail(appended) ELSE appended]

\* _detect_vehicle_category with >= for >
CategoryAtOrAbove(vehicle_category, data) ==
    IF data.speed_kmh > 0
    THEN IF data.front_downforce + data.rear_downforce >= 15000 THEN "LMH"
         ELSE IF data.front_downforce + data.rear_downforce >= 8000 THEN "LMP2"
         ELSE "GT3"
    ELSE vehicle_category

_detect_vehicle_category(vehicle_category, data) ==
    IF data.speed_kmh > 0
    THEN IF data.front_downforce + data.rear_downforce > 15000 THEN "LMH"
         ELSE IF data.front_downforce + data.rear_downforce > 8000 THEN "LMP2"
         ELSE "GT3"
    ELSE vehicle_category

\* SetupAnalyzer.__init__
NewAnalyzer ==
    [samples |-> << >>, current_lap_samples |-> << >>, current_lap |-> 0,
     lap_analyses |-> << >>, vehicle_category |-> "GT3"]

\* add_sample called n >= 1 times in a row with the same telemetry record.
\* Only the first call can see a lap change; the others append the sample.
add_sample(a, data, n) ==
    LET sample == MakeSample(data)
        buffered == [a EXCEPT !.samples = DequeAppend(@, sample, 1),
                              !.current_lap_samples = AppendRun(@, sample, 1)]
        lapped == IF data.lap_number # a.current_lap
                  THEN [(IF a.current_lap > 0 /\ Count(buffered.current_lap_samples) > MinLapSamples
                         THEN _analyze_lap(buffered) ELSE buffered)
                        EXCEPT !.current_lap = data.lap_number,
                               !.current_lap_samples = << >>]
                  ELSE buffered
    IN  [lapped EXCEPT !.samples = DequeAppend(@, sample, n - 1),
                       !.current_lap_samples = AppendRun(@, sample, n - 1),
                       !.vehicle_category = _detect_vehicle_category(@, data)]

\* generate_recommendations: [] without a lap analysis
generate_recommendations(a) ==
    IF a.lap_analyses = << >>
    THEN [returned |-> << >>, generated |-> << >>, considered |-> << >>]
    ELSE RunRecommendations(a.lap_analyses[Len(a.lap_analyses)])

\* add_sample line by line, for one call: the two appends,
BufferSample(a, data) ==
    [a EXCEPT !.samples = DequeAppend(@, MakeSample(data), 1),
              !.current_lap_samples = AppendRun(@, MakeSample(data), 1)]

\* the detection of a new lap,
DetectNewLap(a, data) ==
    IF data.lap_number # a.current_lap
    THEN [(IF a.current_lap > 0 /\ Count(a.current_lap_samples) > MinLapSamples
           THEN _analyze_lap(a) ELSE a)
          EXCEPT !.current_lap = data.lap_number,
                 !.current_lap_samples = << >>]
    ELSE a

\* and the update of the vehicle info
UpdateVehicle(a, data) ==
    [a EXCEPT !.vehicle_category = _detect_vehicle_category(@, data)]

\* a + b + c
RSum3(a, b, c) ==
    Frac(a[1] * b[2] * c[2] + b[1] * a[2] * c[2] + c[1] * a[2] * b[2], a[2] * b[2] * c[2])

\* (sum / 3) * 100
ThirdAsPercent(sum) == Frac(100 * sum[1], 3 * sum[2])

\* get_summary, with the fields of the LapAnalysis that the model carries
get_summary(a) ==
    IF a.lap_analyses = << >>
    THEN [status |-> "collecting", samples |-> Count(a.samples)]
    ELSE LET analysis == a.lap_analyses[Len(a.lap_analyses)]
         IN  [status |-> "ready",
              lap_number |-> analysis.lap_number,
              samples |-> analysis.sample_count,
              category |-> a.vehicle_category,
              problems |-> analysis.problems,
              understeer_pct |->
                 ThirdAsPercent(RSum3(analysis.behavior.ENTRY.understeer,
                                      analysis.behavior.MID.understeer,
                                      analysis.behavior.EXIT.understeer)),
              oversteer_pct |->
                 ThirdAsPercent(RSum3(analysis.behavior.ENTRY.oversteer,
                                      analysis.behavior.MID.oversteer,
                                      analysis.behavior.EXIT.oversteer)),
              traction_loss_pct |-> Frac(100 * analysis.wheelspin_pct[1],
                                         analysis.wheelspin_pct[2]),
              stability_score |-> analysis.stability_score,
              wheelspin_pct |-> analysis.wheelspin_pct,
              lockup_pct |-> analysis.lockup_pct]

(***************************************************************************)
(* Telemetry records of the model.  The base record is a car on a straight *)
(* at 65 m/s (234 km/h) with four equal wheels, every temperature inside   *)
(* its range and no slip: 325 * 200 / 65 = 1000 thousandths.               *)
(***************************************************************************)
BaseRecord ==
    [lap_number |-> 1, speed |-> 65, speed_kmh |-> 234,
     throttle |-> 50, brake |-> 0, steering |-> 0,
     rotation |-> <<200, 200, 200, 200>>,
     grip |-> <<100, 100, 100, 100>>,
     tire_temp |-> <<85, 85, 85, 85>>,
     brake_temp |-> <<400, 400, 400, 400>>,
     ride_height |-> <<50, 50, 60, 60>>,
     front_downforce |-> 2000, rear_downforce |-> 3000]

\* the driver inputs that put a record in each phase
InPhase(data, phase) ==
    CASE phase = "BRAKING" -> [data EXCEPT !.brake = 90, !.throttle = 0, !.steering = 0]
      [] phase = "ENTRY" -> [data EXCEPT !.brake = 50, !.throttle = 0, !.steering = -10]
      [] phase = "MID" -> [data EXCEPT !.brake = 0, !.throttle = 30, !.steering = 20]
      [] phase = "EXIT" -> [data EXCEPT !.brake = 0, !.throttle = 80, !.steering = 10]
      [] phase = "ACCELERATION" -> [data EXCEPT !.brake = 0, !.throttle = 100, !.steering = 0]
      [] phase = "STRAIGHT" -> data

\* the grip or wheel rotation that gives a record each behaviour
Behaving(data, behavior) ==
    CASE behavior = "understeer" -> [data EXCEPT !.grip = <<90, 90, 100, 100>>]
      [] behavior = "oversteer" -> [data EXCEPT !.grip = <<100, 100, 90, 90>>]
      [] behavior = "neutral" -> data
      [] behavior = "wheelspin" -> [data EXCEPT !.rotation = <<200, 200, 220, 220>>]
      [] behavior = "lock" -> [data EXCEPT !.rotation = <<170, 200, 200, 200>>]
      [] behavior = "nervous" -> [data EXCEPT !.steering = 5]

Record(phase, behavior) == Behaving(InPhase(BaseRecord, phase), behavior)
OnLap(data, lap) == [data EXCEPT !.lap_number = lap]
WithTireTemp(data, front, rear) == [data EXCEPT !.tire_temp = <<front, front, rear, rear>>]
WithDownforce(data, total) ==
    [data EXCEPT !.front_downforce = total \div 2, !.rear_downforce = total - total \div 2]

CornerPhases == {"ENTRY", "MID", "EXIT"}
Behaviors == {"understeer", "oversteer", "neutral"}

\* a scenario is a sequence of batches [data, n]; Drive feeds it to a new analyzer
Batch(data, n) == [data |-> data, n |-> n]

RECURSIVE DriveFrom(_, _, _)
DriveFrom(a, batches, i) ==
    IF i > Len(batches) \/ ~Now(a) THEN a
    ELSE DriveFrom(add_sample(a, batches[i].data, batches[i].n), batches, i + 1)

Drive(batches) == DriveFrom(NewAnalyzer, SelectSeq(batches, LAMBDA b : b.n > 0), 1)

(***************************************************************************)
(* TelemetryAnalyzer: the behavior detection of one corner passage.        *)
(* A telemetry point carries slip_angle (FL, FR, RL, RR, tenths of a       *)
(* degree), steering (degrees), g_lat (hundredths of g), throttle          *)
(* (percent), slip_ratio_rl and slip_ratio_rr (thousandths) and its        *)
(* corner_phase.  Severities are fractions.                                *)
(***************************************************************************)
RMax(a, b) == IF RLt(a, b) THEN b ELSE a
RMin100(a) == IF RLt(Frac(100, 1), a) THEN Frac(100, 1) ELSE a

NoDetection == [count |-> 0, max_severity |-> Frac(0, 1), worst_phase |-> "None"]

\* if severity >= max_severity: the last sample of the highest severity wins
WorseOrEqual(acc, severity, phase) ==
    [count |-> acc.count + 1,
     max_severity |-> IF RLe(acc.max_severity, severity) THEN severity ELSE acc.max_severity,
     worst_phase |-> IF RLe(acc.max_severity, severity) THEN phase ELSE acc.worst_phase]

\* if severity > max_severity: max_severity = severity; worst_phase = phase
Worse(acc, severity, phase) ==
    [count |-> acc.count + 1,
     max_severity |-> IF RLt(acc.max_severity, severity) THEN severity ELSE acc.max_severity,
     worst_phase |-> IF RLt(acc.max_severity, severity) THEN phase ELSE acc.worst_phase]

\* twice the front slip minus twice the rear slip, in tenths of a degree
FrontMinusRear(point) ==
    (Abs(point.slip_angle[1]) + Abs(point.slip_angle[2]))
      - (Abs(point.slip_angle[3]) + Abs(point.slip_angle[4]))

\* (slip_diff - 8.0) * 10 for twice the slip difference in tenths of a degree
SlipExcess(diff2) == Frac(diff2 - 160, 2)

\* min(100, (slip_diff - THRESHOLD) * 10)
SlipSeverity(diff2) == RMin100(SlipExcess(diff2))

\* the first loop of _detect_understeer, from point i on
RECURSIVE UndersteerSlip(_, _, _)
UndersteerSlip(points, i, acc) ==
    IF i > Len(points) \/ ~Now(acc) THEN acc
    ELSE UndersteerSlip(points, i + 1,
            IF FrontMinusRear(points[i]) > 160
            THEN Worse(acc, SlipSeverity(FrontMinusRear(points[i])), points[i].corner_phase)
            ELSE acc)

\* the steering saturation loop of _detect_understeer, from point i on:
\* expected_g = abs(steering) / 60, severity = (1 - abs(g_lat) / expected_g) * 50
RECURSIVE SteeringSaturation(_, _, _)
SteeringSaturation(points, i, acc) ==
    IF i > Len(points) \/ ~Now(acc) THEN acc
    ELSE LET steering == Abs(points[i].steering)
             g_lat == Abs(points[i].g_lat)
         IN  SteeringSaturation(points, i + 1,
                IF steering > 60 /\ g_lat < 100 /\ 6 * g_lat < 7 * steering
                THEN Worse(acc, Frac(50 * steering - 30 * g_lat, steering),
                           points[i].corner_phase)
                ELSE acc)

_detect_understeer(points) ==
    LET acc == SteeringSaturation(points, 1, UndersteerSlip(points, 1, NoDetection))
    IN  IF points = << >> THEN [detected |-> FALSE, severity |-> Frac(0, 1), phase |-> "None"]
        ELSE [detected |-> acc.count * 10 > Len(points),
              severity |-> acc.max_severity, phase |-> acc.worst_phase]

\* the first loop of _detect_oversteer, from point i on
RECURSIVE OversteerSlip(_, _, _)
OversteerSlip(points, i, acc) ==
    IF i > Len(points) \/ ~Now(acc) THEN acc
    ELSE OversteerSlip(points, i + 1,
            IF -FrontMinusRear(points[i]) > 160
            THEN Worse(acc, SlipSeverity(-FrontMinusRear(points[i])), points[i].corner_phase)
            ELSE acc)

\* the counter-steering loop of _detect_oversteer, from point i >= 2 on
RECURSIVE CounterSteering(_, _, _)
CounterSteering(points, i, acc) ==
    IF i > Len(points) \/ ~Now(acc) THEN acc
    ELSE CounterSteering(points, i + 1,
            IF points[i - 1].steering * points[i].steering < 0 /\ Abs(points[i].g_lat) > 50
            THEN Worse(acc, RMin100(Frac(Abs(points[i].steering - points[i - 1].steering), 1)),
                       points[i].corner_phase)
            ELSE acc)

_detect_oversteer(points) ==
    LET acc == CounterSteering(points, 2, OversteerSlip(points, 1, NoDetection))
    IN  IF points = << >> THEN [detected |-> FALSE, severity |-> Frac(0, 1), phase |-> "None"]
        ELSE [detected |-> acc.count * 20 > Len(points),
              severity |-> acc.max_severity, phase |-> acc.worst_phase]

\* the loop of _detect_traction_loss, from point i on
RECURSIVE TractionLoop(_, _, _)
TractionLoop(points, i, acc) ==
    IF i > Len(points) \/ ~Now(acc) THEN acc
    ELSE LET rear_slip_ratio == Max(Abs(points[i].slip_ratio_rl), Abs(points[i].slip_ratio_rr))
         IN  TractionLoop(points, i + 1,
                IF points[i].throttle > 50 /\ rear_slip_ratio > 150
                THEN [count |-> acc.count + 1,
                      max_severity |-> RMax(acc.max_severity,
                                            RMin100(Frac(rear_slip_ratio, 5)))]
                ELSE acc)

_detect_traction_loss(points) ==
    LET acc == TractionLoop(points, 1, [count |-> 0, max_severity |-> Frac(0, 1)])
    IN  IF points = << >> THEN [detected |-> FALSE, severity |-> Frac(0, 1)]
        ELSE [detected |-> acc.count > 3, severity |-> acc.max_severity]

\* the behavior fields of the CornerAnalysis that _analyze_single_corner builds
_analyze_single_corner(points) ==
    LET understeer == _detect_understeer(points)
        oversteer == _detect_oversteer(points)
        traction_loss == _detect_traction_loss(points)
    IN  [understeer_detected |-> understeer.detected,
         understeer_severity |-> understeer.severity,
         understeer_phase |-> understeer.phase,
         oversteer_detected |-> oversteer.detected,
         oversteer_severity |-> oversteer.severity,
         oversteer_phase |-> oversteer.phase,
         traction_loss_detected |-> traction_loss.detected,
         traction_loss_severity |-> traction_loss.severity]

\* the passage of a corner as a list of points, from runs [point, n] of n
\* equal consecutive points
RECURSIVE Expand(_)
Expand(runs) ==
    IF runs = << >> THEN << >>
    ELSE [i \in 1..runs[1].n |-> runs[1].point] \o Expand(Tail(runs))

(***************************************************************************)
(* TelemetryAnalyzer: the statistics of a session.  A session of the model *)
(* carries its best_lap_time (hundredths of a second) and, for its valid   *)
(* laps, the corner passages that _analyze_lap_corners cuts out of the lap *)
(* data.                                                                   *)
(***************************************************************************)
\* the float nearest to v / scale, what Python reads from a decimal literal
Decimal(v, scale) == FDiv(FFromInt(v), FFromInt(scale))

\* acc + s[lo] + ... + s[hi], added from left to right: the first half of
\* the terms and then the rest
RECURSIVE FSumFrom(_, _, _, _)
FSumFrom(s, lo, hi, acc) ==
    IF hi < lo \/ ~Now(acc) THEN acc
    ELSE IF lo = hi THEN FAdd(acc, s[lo])
    ELSE FSumFrom(s, (lo + hi) \div 2 + 1, hi, FSumFrom(s, lo, (lo + hi) \div 2, acc))

\* sum() of a list of floats
FSum(s) == FSumFrom(s, 1, Len(s), FZero)

\* sum(severities) / len(severities) if severities else 0
Tendency(severities) ==
    IF severities = << >> THEN FZero
    ELSE FDiv(FSum([i \in 1..Len(severities) |->
                       Decimal(severities[i][1], severities[i][2])]),
              FFromInt(Len(severities)))

\* the tendencies of _calculate_behavior_statistics; BehaviorStatistics()
\* has them all 0.0
_calculate_behavior_statistics(corners) ==
    LET understeer == SelectSeq(corners, LAMBDA c : c.understeer_detected)
        oversteer == SelectSeq(corners, LAMBDA c : c.oversteer_detected)
        traction == SelectSeq(corners, LAMBDA c : c.traction_loss_detected)
    IN  [understeer_tendency |->
            Tendency([i \in 1..Len(understeer) |-> understeer[i].understeer_severity]),
         oversteer_tendency |->
            Tendency([i \in 1..Len(oversteer) |-> oversteer[i].oversteer_severity]),
         traction_on_throttle |->
            Tendency([i \in 1..Len(traction) |-> traction[i].traction_loss_severity])]

analyze_session(session) ==
    LET passages == SelectSeq(session.corners, LAMBDA runs : runs # << >>)
    IN  _calculate_behavior_statistics(
            [i \in 1..Len(passages) |-> _analyze_single_corner(Expand(passages[i]))])

(***************************************************************************)
(* TelemetryAnalyzer: the corners of the track and of a lap.  A point of a *)
(* lap carries, next to the fields above, its distance (metres), its       *)
(* timestamp (quarters of a second, exact as floats), its speed (km/h),    *)
(* brake (percent) and g_long (hundredths of g).  A lap has its lap_time   *)
(* (hundredths of a second), is_valid (valid, and neither outlap nor       *)
(* inlap) and its data_points; a session has its laps.  Of a               *)
(* CornerAnalysis the model carries the fields of the corner definition,   *)
(* the speeds, the time through the corner and the detected behavior.      *)
(***************************************************************************)
NewTelemetryAnalyzer == [track_corners |-> << >>]

valid_laps(session) == SelectSeq(session.laps, LAMBDA lap : lap.is_valid)

\* the index of the first element of s with the smallest key
RECURSIVE FirstMinFrom(_, _, _)
FirstMinFrom(keys, i, best) ==
    IF i > Len(keys) THEN best
    ELSE FirstMinFrom(keys, i + 1, IF keys[i] < keys[best] THEN i ELSE best)

FirstMin(keys) == FirstMinFrom(keys, 2, 1)

\* min(valid, key=lambda x: x.lap_time), or None: a sequence of at most one lap
best_valid_lap(session) ==
    LET valid == valid_laps(session)
    IN  IF valid = << >> THEN << >>
        ELSE <<valid[FirstMin([i \in 1..Len(valid) |-> valid[i].lap_time])]>>

_classify_corner_speed(speed) ==
    IF speed < 80 THEN "SLOW"
    ELSE IF speed < 140 THEN "MEDIUM"
    ELSE IF speed < 200 THEN "FAST"
    ELSE "VERY_FAST"

is_turning(point) == Abs(point.steering) > 15 \/ Abs(point.g_lat) > 30

\* the CornerDefinition of the points first..i-1, closed by point i
CornerDefinition(points, first, i, corner_id) ==
    LET corner_points == SubSeq(points, first, i - 1)
        apex_idx == FirstMin([k \in 1..Len(corner_points) |-> corner_points[k].speed])
        steering == SeqSum([k \in 1..Len(corner_points) |-> corner_points[k].steering])
    IN  [corner_id |-> corner_id,
         start_distance |-> points[first].distance,
         apex_distance |-> corner_points[apex_idx].distance,
         end_distance |-> points[i].distance,
         direction |-> IF steering < 0 THEN "LEFT" ELSE "RIGHT",
         corner_type |-> _classify_corner_speed(corner_points[apex_idx].speed)]

\* the loop of _detect_track_corners from point i on; MIN_CORNER_DURATION is
\* 0.5 s, two quarters
RECURSIVE CornersFrom(_, _, _)
CornersFrom(points, i, acc) ==
    IF i > Len(points) \/ ~Now(acc) THEN acc.corners
    ELSE CornersFrom(points, i + 1,
            IF is_turning(points[i]) /\ ~acc.in_corner
            THEN [acc EXCEPT !.in_corner = TRUE, !.corner_start_idx = i]
            ELSE IF ~is_turning(points[i]) /\ acc.in_corner
            THEN [acc EXCEPT
                     !.in_corner = FALSE,
                     !.corners =
                        IF points[i].timestamp - points[acc.corner_start_idx].timestamp >= 2
                        THEN Append(@, CornerDefinition(points, acc.corner_start_idx, i,
                                                        Len(@) + 1))
                        ELSE @]
            ELSE acc)

\* self.track_corners after _detect_track_corners(reference_lap)
_detect_track_corners(self, reference_lap) ==
    IF reference_lap = << >> \/ reference_lap[1].data_points = << >> THEN self
    ELSE [self EXCEPT !.track_corners =
             CornersFrom(reference_lap[1].data_points, 1,
                         [in_corner |-> FALSE, corner_start_idx |-> 1, corners |-> << >>])]

\* the cascade with a turn-in on any rise of the steering
_determine_phase_on_any_rise(point, all_points, idx) ==
    LET steering == Abs(point.steering)
        g_lat == Abs(point.g_lat)
    IN  IF point.brake > 50 /\ point.g_long < -50 THEN "BRAKE_ZONE"
        ELSE IF point.brake > 10 /\ point.brake <= 50 /\ steering > 10 THEN "TRAIL_BRAKE"
        ELSE IF /\ steering > 20 /\ point.throttle < 30 /\ point.brake < 30
                /\ idx > 1
                /\ steering - Abs(all_points[idx - 1].steering) > 0 THEN "TURN_IN"
        ELSE IF g_lat > 80 /\ point.throttle < 50 /\ point.brake < 10 THEN "APEX"
        ELSE IF g_lat > 50 /\ steering > 15 THEN "MID_CORNER"
        ELSE IF point.throttle > 30 /\ steering > 10 /\ point.g_long > 0 THEN "EXIT"
        ELSE IF point.throttle > 80 /\ steering < 10 THEN "ACCELERATION"
        ELSE "APPROACH"

_determine_phase(point, all_points, idx) ==
    LET steering == Abs(point.steering)
        g_lat == Abs(point.g_lat)
    IN  IF point.brake > 50 /\ point.g_long < -50 THEN "BRAKE_ZONE"
        ELSE IF point.brake > 10 /\ point.brake <= 50 /\ steering > 10 THEN "TRAIL_BRAKE"
        ELSE IF /\ steering > 20 /\ point.throttle < 30 /\ point.brake < 30
                /\ idx > 1
                /\ steering - Abs(all_points[idx - 1].steering) > 2 THEN "TURN_IN"
        ELSE IF g_lat > 80 /\ point.throttle < 50 /\ point.brake < 10 THEN "APEX"
        ELSE IF g_lat > 50 /\ steering > 15 THEN "MID_CORNER"
        ELSE IF point.throttle > 30 /\ steering > 10 /\ point.g_long > 0 THEN "EXIT"
        ELSE IF point.throttle > 80 /\ steering < 10 THEN "ACCELERATION"
        ELSE "APPROACH"

\* the data points of the lap after _detect_corner_phases
_detect_corner_phases(data_points) ==
    [i \in 1..Len(data_points) |->
        [data_points[i] EXCEPT !.corner_phase = _determine_phase(data_points[i], data_points, i)]]

\* the CornerAnalysis of the passage of a corner
CornerAnalysis(corner_def, points) ==
    [corner_id |-> corner_def.corner_id,
     corner_type |-> corner_def.corner_type,
     direction |-> corner_def.direction,
     start_distance |-> corner_def.start_distance,
     apex_distance |-> corner_def.apex_distance,
     end_distance |-> corner_def.end_distance,
     entry_speed |-> points[1].speed,
     min_speed |-> points[FirstMin([k \in 1..Len(points) |-> points[k].speed])].speed,
     exit_speed |-> points[Len(points)].speed,
     time_through_corner |-> points[Len(points)].timestamp - points[1].timestamp]
    @@ _analyze_single_corner(points)

RECURSIVE LapCornersFrom(_, _, _)
LapCornersFrom(track_corners, data_points, i) ==
    IF i > Len(track_corners) THEN << >>
    ELSE LET corner_points ==
                 SelectSeq(data_points,
                           LAMBDA p : /\ track_corners[i].start_distance <= p.distance
                                      /\ p.distance <= track_corners[i].end_distance)
         IN  (IF corner_points = << >> THEN << >>
              ELSE <<CornerAnalysis(track_corners[i], corner_points)>>)
             \o LapCornersFrom(track_corners, data_points, i + 1)

_analyze_lap_corners(self, data_points) ==
    IF self.track_corners = << >> \/ data_points = << >> THEN << >>
    ELSE LapCornersFrom(self.track_corners, data_points, 1)

\* the loop of analyze_session over the valid laps, from lap i on
RECURSIVE AllCornerAnalyses(_, _, _)
AllCornerAnalyses(self, laps, i) ==
    IF i > Len(laps) THEN << >>
    ELSE _analyze_lap_corners(self, _detect_corner_phases(laps[i].data_points))
         \o AllCornerAnalyses(self, laps, i + 1)

\* the analyzer as the first lines of analyze_session leave it
WithTrackCorners(self, session) ==
    IF self.track_corners = << >> /\ valid_laps(session) # << >>
    THEN _detect_track_corners(self, best_valid_lap(session))
    ELSE self

\* analyze_session of an analyzer on a session with its laps: the analyzer
\* afterwards, the corner analyses of all laps and the returned statistics
TelemetryAnalyzer_analyze_session(self, session) ==
    [self |-> WithTrackCorners(self, session),
     corners |-> AllCornerAnalyses(WithTrackCorners(self, session), valid_laps(session), 1),
     stats |-> _calculate_behavior_statistics(
                  AllCornerAnalyses(WithTrackCorners(self, session),
                                    valid_laps(session), 1))]

(***************************************************************************)
(* SetupCorrelator.  A setup of the model has an optional differential     *)
(* with its preload and optional brakes with their bias; an optional value *)
(* is the empty sequence or a sequence of one element.  Of the parameters  *)
(* _extract_setup_parameters reads, the model follows diff_preload and     *)
(* brake_bias.  A number that the program reads is a record of the decimal *)
(* it was written as (scaled, in tenths for setup values and in hundredths *)
(* for lap times) and of the float it is read as (value); a ParameterRange *)
(* keeps the decimals next to its floats (scaled_values, scaled_lap_times).*)
(***************************************************************************)
Tenths(v) == [scaled |-> v, value |-> Decimal(v, 10)]
Hundredths(v) == [scaled |-> v, value |-> Decimal(v, 100)]

Hundred == FFromInt(100)

\* Percentage.__post_init__: max(0, min(100, value)) for a value out of range
Percentage(v) ==
    IF FSign(v.value) < 0 THEN [scaled |-> 0, value |-> FZero]
    ELSE IF FLt(Hundred, v.value) THEN [scaled |-> 1000, value |-> Hundred]
    ELSE v

_extract_setup_parameters(setup) ==
    (IF setup.differential # << >>
     THEN <<[name |-> "diff_preload", value |-> setup.differential[1].preload]>>
     ELSE << >>)
    \o (IF setup.brakes # << >>
        THEN <<[name |-> "brake_bias", value |-> Percentage(setup.brakes[1].bias)]>>
        ELSE << >>)

RangeIndex(ranges, name) ==
    CHOOSE i \in 1..Len(ranges) : ranges[i].parameter_name = name

\* _update_parameter_ranges that keeps only the latest pair of a parameter
UpdateRangeKeepLast(ranges, param, lap_time) ==
    LET value == param.value.value
        others == SelectSeq(ranges, LAMBDA range : range.parameter_name # param.name)
    IN  Append(others, [parameter_name |-> param.name,
                        min_value |-> value, max_value |-> value,
                        optimal_value |-> << >>,
                        values |-> <<value>>, lap_times |-> <<lap_time.value>>,
                        scaled_values |-> <<param.value.scaled>>,
                        scaled_lap_times |-> <<lap_time.scaled>>])

\* one turn of the loop of _update_parameter_ranges
UpdateRange(ranges, param, lap_time) ==
    LET value == param.value.value
        known == \E i \in 1..Len(ranges) : ranges[i].parameter_name = param.name
        all == IF known THEN ranges
               ELSE Append(ranges, [parameter_name |-> param.name,
                                    min_value |-> value, max_value |-> value,
                                    optimal_value |-> << >>,
                                    values |-> << >>, lap_times |-> << >>,
                                    scaled_values |-> << >>, scaled_lap_times |-> << >>])
        i == RangeIndex(all, param.name)
    IN  [all EXCEPT ![i].values = Append(@, value),
                    ![i].lap_times = Append(@, lap_time.value),
                    ![i].min_value = IF FLt(value, @) THEN value ELSE @,
                    ![i].max_value = IF FLt(@, value) THEN value ELSE @,
                    ![i].scaled_values = Append(@, param.value.scaled),
                    ![i].scaled_lap_times = Append(@, lap_time.scaled)]

RECURSIVE UpdateFrom(_, _, _, _)
UpdateFrom(ranges, params, i, lap_time) ==
    IF i > Len(params) THEN ranges
    ELSE UpdateFrom(UpdateRange(ranges, params[i], lap_time), params, i + 1, lap_time)

_update_parameter_ranges(ranges, setup, best_lap_time) ==
    UpdateFrom(ranges, _extract_setup_parameters(setup), 1, best_lap_time)

NewCorrelator == [sessions |-> << >>, parameter_ranges |-> << >>]

add_session(c, session, setup) ==
    [sessions |-> Append(c.sessions,
                         [behavior |-> analyze_session(session),
                          best_lap_time |-> session.best_lap_time.value]),
     parameter_ranges |->
        _update_parameter_ranges(c.parameter_ranges, setup, session.best_lap_time)]

\* math.log2(k) for k = 2..13
Log2Table ==
    <<FLit(0, <<0, 0, 0, 128>>, -52), FLit(0, <<15720, 18239, 28678, 202>>, -52),
      FLit(0, <<0, 0, 0, 128>>, -51), FLit(0, <<9073, 4851, 19772, 148>>, -51),
      FLit(0, <<24244, 9119, 14339, 165>>, -51), FLit(0, <<1069, 32424, 21977, 179>>, -51),
      FLit(0, <<0, 0, 0, 192>>, -51), FLit(0, <<15720, 18239, 28678, 202>>, -51),
      FLit(0, <<9073, 4851, 19772, 212>>, -51), FLit(0, <<23874, 30732, 13225, 221>>, -51),
      FLit(0, <<24244, 9119, 14339, 229>>, -51), FLit(0, <<25139, 18211, 27136, 236>>, -51)>>

Log2(k) == Log2Table[k - 1]

\* numerator / denominator, or None when denominator == 0
PearsonRatio(numerator, denominator) ==
    IF FIsZero(denominator) THEN [outcome |-> "None"]
    ELSE [outcome |-> "value", correlation |-> FDiv(numerator, denominator)]

\* math.sqrt raises ValueError on a negative argument
PearsonFrom(numerator, radicand) ==
    IF FSign(radicand) < 0 THEN [outcome |-> "ValueError"]
    ELSE PearsonRatio(numerator, FSqrt(radicand))

\* n * sum_ab - sum_a * sum_b
Spread(n, sum_ab, sum_a, sum_b) == FSub(FMul(n, sum_ab), FMul(sum_a, sum_b))

PearsonOfSums(n, sum_x, sum_y, sum_xy, sum_x2, sum_y2) ==
    \* the five sums are computed first, in the order of the code
    IF Now(<<sum_x, sum_y, sum_xy, sum_x2, sum_y2>>)
    THEN PearsonFrom(Spread(n, sum_xy, sum_x, sum_y),
                     FMul(Spread(n, sum_x2, sum_x, sum_x), Spread(n, sum_y2, sum_y, sum_y)))
    ELSE [outcome |-> "None"]

\* x * y for x, y in zip(xs, ys)
Products(xs, ys) == [i \in 1..Len(xs) |-> FMul(xs[i], ys[i])]

\* the Pearson coefficient as both correlations compute it
Pearson(xs, ys) ==
    PearsonOfSums(FFromInt(Len(xs)), FSum(xs), FSum(ys), FSum(Products(xs, ys)),
                  FSum(Products(xs, xs)), FSum(Products(ys, ys)))

ConfidenceUnclamped(correlation, n) ==
    FMul(FMul(FAbs(correlation), Hundred), Log2(n + 1))

\* min(100, abs(correlation) * 100 * math.log2(n + 1))
Confidence(correlation, n) ==
    FMin(Hundred, FMul(FMul(FAbs(correlation), Hundred), Log2(n + 1)))

\* lap_times.index(min(lap_times))
BestIndex(lap_times) ==
    CHOOSE i \in 1..Len(lap_times) :
        /\ \A j \in 1..Len(lap_times) : ~FLt(lap_times[j], lap_times[i])
        /\ \A j \in 1..(i - 1) : FLt(lap_times[i], lap_times[j])

\* the literals 0.3 and 0.5
WeakCorrelation == Decimal(3, 10)
Half == Decimal(5, 10)

\* suggested_direction: "optimal" for abs(correlation) < 0.3
Direction(correlation) ==
    IF FLt(FAbs(correlation), WeakCorrelation) THEN "optimal"
    ELSE IF FSign(correlation) < 0 THEN "increase" ELSE "decrease"

\* suggested_change for each direction
Change(param_range, direction) ==
    LET current_value == param_range.values[Len(param_range.values)]
    IN  IF direction = "optimal" THEN FZero
        ELSE IF direction = "increase"
        THEN FMul(FSub(param_range.max_value, current_value), Half)
        ELSE FMul(FSub(current_value, param_range.min_value), Half)

\* the SetupCorrelation of a parameter and the optimal_value found for it
Correlated(param_range, correlation) ==
    [outcome |-> "value",
     optimal_value |-> <<param_range.values[BestIndex(param_range.lap_times)]>>,
     entry |->
        [parameter_name |-> param_range.parameter_name,
         parameter_value |-> param_range.values[Len(param_range.values)],
         lap_time_correlation |-> correlation,
         confidence |-> Confidence(correlation, Len(param_range.values)),
         sample_count |-> Len(param_range.values),
         suggested_direction |-> Direction(correlation),
         suggested_change |-> Change(param_range, Direction(correlation))]]

\* what follows the computation of the coefficient
CorrelationOf(param_range, p) ==
    IF p.outcome # "value" THEN p ELSE Correlated(param_range, p.correlation)

_calculate_parameter_correlation(param_range) ==
    IF Len(param_range.values) < 2 THEN [outcome |-> "None"]
    ELSE CorrelationOf(param_range, Pearson(param_range.values, param_range.lap_times))

ByConfidence(a, b) == FLt(b.confidence, a.confidence)

\* one turn of the loop of analyze_correlations: r is what
\* _calculate_parameter_correlation gave for parameter i
Collect(acc, i, r) ==
    IF r.outcome = "None" THEN acc
    ELSE IF r.outcome = "ValueError" THEN [acc EXCEPT !.raised = TRUE]
    ELSE [acc EXCEPT !.value = Append(@, r.entry),
                     !.ranges[i].optimal_value = r.optimal_value]

\* the loop of analyze_correlations from parameter i on; a ValueError ends it
RECURSIVE CorrelateFrom(_, _)
CorrelateFrom(acc, i) ==
    IF acc.raised \/ i > Len(acc.ranges) THEN acc
    ELSE CorrelateFrom(
            IF Len(acc.ranges[i].values) < 2 THEN acc
            ELSE Collect(acc, i, _calculate_parameter_correlation(acc.ranges[i])),
            i + 1)

\* len(self.sessions) < 2 in analyze_correlations
TooFewSessions(c) == Len(c.sessions) < 2

\* what the loop leaves: the sorted list, or the ValueError
Correlations(c, done) ==
    [raised |-> done.raised,
     value |-> IF done.raised THEN << >> ELSE StableSortDesc(done.value, ByConfidence),
     correlator |-> [c EXCEPT !.parameter_ranges = done.ranges]]

\* what analyze_correlations returns or raises, and the correlator it leaves
analyze_correlations(c) ==
    IF TooFewSessions(c)
    THEN [raised |-> FALSE, value |-> << >>, correlator |-> c]
    ELSE Correlations(c, CorrelateFrom([raised |-> FALSE, value |-> << >>,
                                        ranges |-> c.parameter_ranges], 1))

BehaviorValues(c, metric) ==
    [i \in 1..Len(c.sessions) |-> c.sessions[i].behavior[metric]]

LowConfidence == FFromInt(30)

\* the SetupCorrelation of a parameter with a behavior metric
BehaviorEntry(param_range, correlation, confidence) ==
    IF FLt(confidence, LowConfidence) THEN [outcome |-> "None"]
    ELSE [outcome |-> "value",
          entry |->
            [parameter_name |-> param_range.parameter_name,
             parameter_value |-> param_range.values[Len(param_range.values)],
             balance_correlation |-> correlation,
             confidence |-> confidence,
             sample_count |-> Len(param_range.values),
             suggested_direction |->
                IF FSign(correlation) < 0 THEN "increase" ELSE "decrease",
             suggested_change |-> FZero]]

BehaviorCorrelationOf(param_range, p) ==
    IF p.outcome # "value" THEN p
    ELSE BehaviorEntry(param_range, p.correlation,
                       Confidence(p.correlation, Len(param_range.values)))

_calculate_behavior_correlation(param_range, behavior_values) ==
    IF Len(param_range.values) # Len(behavior_values) \/ Len(param_range.values) < 2
    THEN [outcome |-> "None"]
    ELSE BehaviorCorrelationOf(param_range, Pearson(param_range.values, behavior_values))

\* the correlations of one behavior metric with every parameter
BehaviorOutcomes(c, metric) ==
    [i \in 1..Len(c.parameter_ranges) |->
        _calculate_behavior_correlation(c.parameter_ranges[i], BehaviorValues(c, metric))]

BehaviorList(outcomes) ==
    LET found == SelectSeq(outcomes, LAMBDA r : r.outcome = "value")
    IN  StableSortDesc([i \in 1..Len(found) |-> found[i].entry], ByConfidence)

NoSessions(c) == c.sessions = << >>

\* len(self.sessions) < 2 in get_behavior_correlations
TooFewForBehavior(c) == Len(c.sessions) < 2

\* one of the calls raised ValueError
Raised(outcomes) == \E i \in 1..Len(outcomes) : outcomes[i].outcome = "ValueError"

\* the dict that get_behavior_correlations builds, as the sequence of its
\* <<key, value>> pairs
BehaviorResults(understeer, oversteer, traction) ==
    IF Raised(understeer) \/ Raised(oversteer) \/ Raised(traction)
    THEN [raised |-> TRUE, value |-> << >>]
    ELSE [raised |-> FALSE,
          value |-> <<<<"understeer", BehaviorList(understeer)>>,
                      <<"oversteer", BehaviorList(oversteer)>>,
                      <<"traction", BehaviorList(traction)>>,
                      <<"tire_wear", << >> >> >>]

\* what get_behavior_correlations returns or raises
get_behavior_correlations(c) ==
    IF TooFewForBehavior(c) THEN [raised |-> FALSE, value |-> << >>]
    ELSE BehaviorResults(BehaviorOutcomes(c, "understeer_tendency"),
                         BehaviorOutcomes(c, "oversteer_tendency"),
                         BehaviorOutcomes(c, "traction_on_throttle"))

\* the value of a call, evaluated once: the element of a set of one element
TheOne(S) == CHOOSE x \in S : TRUE

HighConfidence == FFromInt(50)

\* one entry of the dict of get_optimal_setup_suggestions, as a <<key, value>>
\* pair
Suggestion(corr) ==
    <<corr.parameter_name,
      [current_value |-> corr.parameter_value,
       suggested_direction |-> corr.suggested_direction,
       suggested_change |-> corr.suggested_change,
       confidence |-> corr.confidence,
       lap_time_impact |-> corr.lap_time_correlation]>>

SuggestionList(high) == [i \in 1..Len(high) |-> Suggestion(high[i])]

\* the dict of get_optimal_setup_suggestions, as the sequence of its
\* <<key, value>> pairs: r is what analyze_correlations returned or raised
SuggestionsOf(r) ==
    IF r.raised THEN [raised |-> TRUE, value |-> << >>, correlator |-> r.correlator]
    ELSE [raised |-> FALSE,
          value |-> SuggestionList(SelectSeq(r.value,
                       LAMBDA corr : ~FLt(corr.confidence, HighConfidence))),
          correlator |-> r.correlator]

\* the dict that generate_report returns: its three calls gave correlations,
\* behavior and suggestions
Report(correlations_, behavior, suggestions) ==
    IF suggestions.raised
    THEN [raised |-> TRUE, value |-> << >>, correlator |-> suggestions.correlator]
    ELSE [raised |-> FALSE,
          value |->
            [session_count |-> Len(suggestions.correlator.sessions),
             parameter_count |-> Len(suggestions.correlator.parameter_ranges),
             lap_time_correlations |->
                [i \in 1..Min(10, Len(correlations_.value)) |->
                    [parameter |-> correlations_.value[i].parameter_name,
                     correlation |-> correlations_.value[i].lap_time_correlation,
                     confidence |-> correlations_.value[i].confidence,
                     suggestion |-> correlations_.value[i].suggested_direction]],
             behavior_correlations |->
                [k \in 1..Len(behavior.value) |->
                    <<behavior.value[k][1],
                      [i \in 1..Min(5, Len(behavior.value[k][2])) |->
                          [parameter |-> behavior.value[k][2][i].parameter_name,
                           correlation |-> behavior.value[k][2][i].balance_correlation,
                           confidence |-> behavior.value[k][2][i].confidence]]>>],
             suggestions |-> suggestions.value,
             sessions |->
                [i \in 1..Len(suggestions.correlator.sessions) |->
                    [best_lap |-> suggestions.correlator.sessions[i].best_lap_time,
                     understeer |->
                        suggestions.correlator.sessions[i].behavior.understeer_tendency,
                     oversteer |->
                        suggestions.correlator.sessions[i].behavior.oversteer_tendency]]],
          correlator |-> suggestions.correlator]

\* the calls that get_optimal_setup_suggestions and generate_report make
Calls(api) ==
    IF api = "generate_report"
    THEN <<"analyze_correlations", "get_behavior_correlations", "analyze_correlations">>
    ELSE <<"analyze_correlations">>

Call(op, c) ==
    IF op = "analyze_correlations" THEN analyze_correlations(c)
    ELSE [correlator |-> c] @@ get_behavior_correlations(c)

\* what the calls from the i-th on return, one after the other on the
\* correlator that the call before left, up to the first that raises
RECURSIVE ReturnsFrom(_, _, _, _)
ReturnsFrom(c, calls, i, returns) ==
    IF i > Len(calls) \/ (returns # << >> /\ returns[Len(returns)].raised) THEN returns
    ELSE TheOne({ReturnsFrom(r.correlator, calls, i + 1, Append(returns, r)) :
                    r \in {Call(calls[i], c)}})

Outcome(api, returns) ==
    IF returns[Len(returns)].raised
    THEN [raised |-> TRUE, value |-> << >>, correlator |-> returns[Len(returns)].correlator]
    ELSE IF api = "generate_report"
    THEN Report(returns[1], returns[2], SuggestionsOf(returns[3]))
    ELSE SuggestionsOf(returns[1])

\* what api returns or raises, and the correlator it leaves
Query(api, c) ==
    TheOne({Outcome(api, returns) : returns \in {ReturnsFrom(c, Calls(api), 1, << >>)}})

get_optimal_setup_suggestions(c) == Query("get_optimal_setup_suggestions", c)

generate_report(c) == Query("generate_report", c)

(***************************************************************************)
(* RuleEngine and the rules for lock-up and power oversteer.               *)
(* The driver's feedback is a sequence of words.  lower() is the table of   *)
(* the capitalised words of the model; a keyword occurs in a text where    *)
(* its words follow each other, the last one possibly as the beginning of  *)
(* a longer word ("rear lock" occurs in "rear lockup").  A setup of the    *)
(* rule engine has optional brakes, differential, suspension and aero; of  *)
(* a recommendation the model keeps the parameter, the direction and the   *)
(* amount, the values formatted from the setup are left out.               *)
(***************************************************************************)
lower(word) ==
    CASE word = "Rear" -> "rear"
      [] word = "REAR" -> "rear"
      [] word = "LOCK" -> "lock"
      [] word = "Power" -> "power"
      [] word = "OVERSTEER" -> "oversteer"
      [] OTHER -> word

Lowered(text) == [i \in 1..Len(text) |-> lower(text[i])]

\* the pairs <<word, beginning>> of the model, beside word = beginning
Beginnings == {<<"lockup", "lock">>, <<"locks", "lock">>, <<"oversteering", "oversteer">>}

\* kw in text
Occurs(kw, text) ==
    \E i \in 1..(Len(text) - Len(kw) + 1) :
        /\ \A j \in 1..(Len(kw) - 1) : text[i + j - 1] = kw[j]
        /\ \/ text[i + Len(kw) - 1] = kw[Len(kw)]
           \/ <<text[i + Len(kw) - 1], kw[Len(kw)]>> \in Beginnings

\* any(kw in feedback_lower for kw in keywords)
AnyKeyword(keywords, context) ==
    \E kw \in keywords : Occurs(kw, Lowered(context.driver_feedback))

Rec(parameter, direction, amount) ==
    [parameter |-> parameter, direction |-> direction, amount |-> amount]

\* Rule.create_diagnostic: the class attributes of the rule and its
\* recommendations; priority is the default of the Diagnostic dataclass
create_diagnostic(rule, recs) ==
    [title |-> rule.name, severity |-> rule.severity, category |-> rule.category,
     problem_type |-> rule.problem_type, corner_phase |-> rule.corner_phase,
     recommendations |-> recs, priority |-> 1]

NoDiagnostic == << >>

FrontLockupRule ==
    [id |-> "front_lockup", name |-> "Front Wheel Lockup", category |-> "BRAKING",
     severity |-> "WARNING", problem_type |-> "FRONT_LOCKUP", corner_phase |-> "BRAKING",
     keywords |-> {<<"front", "lock">>, <<"front", "lockup">>, <<"blocage", "avant">>,
                   <<"front", "wheels", "lock">>, <<"avant", "bloque">>}]

RearLockupRule ==
    [id |-> "rear_lockup", name |-> "Rear Wheel Lockup", category |-> "BRAKING",
     severity |-> "CRITICAL", problem_type |-> "REAR_LOCKUP", corner_phase |-> "BRAKING",
     keywords |-> {<<"rear", "lock">>, <<"rear", "lockup">>, <<"blocage", "arriere">>,
                   <<"rear", "wheels", "lock">>, <<"arriere", "bloque">>,
                   <<"spin", "braking">>}]

PowerOversteerRule ==
    [id |-> "power_oversteer", name |-> "Power Oversteer", category |-> "TRACTION",
     severity |-> "WARNING", problem_type |-> "POWER_OVERSTEER", corner_phase |-> "EXIT",
     keywords |-> {<<"power", "oversteer">>, <<"snap", "oversteer">>,
                   <<"survirage", "acceleration">>, <<"rear", "snap">>,
                   <<"arriere", "part", "a", "l'acceleration">>}]

OversteerExitRule ==
    [id |-> "oversteer_exit", name |-> "Oversteer on Exit (Power Oversteer)",
     category |-> "BALANCE", severity |-> "WARNING", problem_type |-> "OVERSTEER_EXIT",
     corner_phase |-> "EXIT",
     keywords |-> {<<"oversteer", "exit">>, <<"loose", "exit">>, <<"survirage", "sortie">>,
                   <<"power", "oversteer">>, <<"wheelspin", "exit">>}]

Rules == {FrontLockupRule, RearLockupRule, PowerOversteerRule, OversteerExitRule}

FrontLockupRecommendations(setup) ==
    (IF setup.brakes # << >>
     THEN <<Rec("Brake Bias", "decrease", "-2-3%")>>
          \o (IF setup.brakes[1].pressure > 90
              THEN <<Rec("Brake Pressure", "decrease", "-5%")>> ELSE << >>)
     ELSE << >>)
    \o (IF setup.suspension # << >>
        THEN <<Rec("Front Ride Height", "increase", "+2mm")>> ELSE << >>)

RearLockupRecommendations(setup) ==
    (IF setup.brakes # << >> THEN <<Rec("Brake Bias", "increase", "+3-4%")>> ELSE << >>)
    \o (IF setup.differential # << >>
        THEN <<Rec("Diff Coast Lock", "increase", "+10-15%")>> ELSE << >>)
    \o (IF setup.suspension # << >>
        THEN <<Rec("Rear ARB", "decrease", "2-3 clicks")>> ELSE << >>)

PowerOversteerRecommendations(setup) ==
    (IF setup.differential # << >>
     THEN <<Rec("Diff Power Lock", "decrease", "-15-20%")>> ELSE << >>)
    \o <<Rec("Traction Control", "increase", "+2-3")>>
    \o (IF setup.suspension # << >>
        THEN <<Rec("Rear ARB", "decrease", "3-4 clicks"),
               Rec("Rear Slow Bump", "increase", "+2 clicks")>>
        ELSE << >>)
    \o (IF setup.aero # << >> THEN <<Rec("Rear Wing", "increase", "+2-3")>> ELSE << >>)

OversteerExitRecommendations(setup) ==
    (IF setup.differential # << >>
     THEN <<Rec("Diff Power Lock", "decrease", "-5-10%"),
            Rec("Diff Preload", "decrease", "-10 Nm")>>
     ELSE << >>)
    \o (IF setup.suspension # << >>
        THEN <<Rec("Rear Ride Height", "increase", "+2mm")>> ELSE << >>)
    \o <<Rec("Traction Control", "increase", "+1")>>

\* the diagnostic of a rule whose evaluate returns what create_diagnostic made
Created(rule, recs, context) ==
    IF AnyKeyword(rule.keywords, context)
    THEN <<create_diagnostic(rule, recs)>>
    ELSE NoDiagnostic

\* the diagnostic of a rule whose evaluate sets diag.severity = Severity.CRITICAL
Escalated(rule, recs, context) ==
    IF AnyKeyword(rule.keywords, context)
    THEN <<[create_diagnostic(rule, recs) EXCEPT !.severity = "CRITICAL"]>>
    ELSE NoDiagnostic

\* PowerOversteerRule.evaluate without its line 124
PowerOversteerAsCreated(context) ==
    Created(PowerOversteerRule, PowerOversteerRecommendations(context.setup), context)

\* rule.evaluate(context): no diagnostic, or a sequence of one
FrontLockupRule_evaluate(context) ==
    Created(FrontLockupRule, FrontLockupRecommendations(context.setup), context)

RearLockupRule_evaluate(context) ==
    Escalated(RearLockupRule, RearLockupRecommendations(context.setup), context)

PowerOversteerRule_evaluate(context) ==
    Escalated(PowerOversteerRule, PowerOversteerRecommendations(context.setup), context)

OversteerExitRule_evaluate(context) ==
    Created(OversteerExitRule, OversteerExitRecommendations(context.setup), context)

rule_evaluate(rule, context) ==
    CASE rule.id = "front_lockup" -> FrontLockupRule_evaluate(context)
      [] rule.id = "rear_lockup" -> RearLockupRule_evaluate(context)
      [] rule.id = "power_oversteer" -> PowerOversteerRule_evaluate(context)
      [] rule.id = "oversteer_exit" -> OversteerExitRule_evaluate(context)

\* RuleEngine.__init__
NewEngine == [rules |-> << >>]

register_rule(e, rule) == [e EXCEPT !.rules = Append(@, rule)]

\* the loop over self.rules from index i on, for the rules that satisfy Wanted
RECURSIVE EvaluateFrom(_, _, _, _)
EvaluateFrom(e, context, Wanted(_), i) ==
    IF i > Len(e.rules) THEN << >>
    ELSE (IF Wanted(e.rules[i]) THEN rule_evaluate(e.rules[i], context) ELSE << >>)
         \o EvaluateFrom(e, context, Wanted, i + 1)

severity_order(severity) ==
    CASE severity = "CRITICAL" -> 0
      [] severity = "WARNING" -> 1
      [] severity = "INFO" -> 2
      [] severity = "SUCCESS" -> 3
      [] OTHER -> 99

\* the order of the sort key (severity_order, priority)
KeyBefore(a, b) ==
    \/ severity_order(a.severity) < severity_order(b.severity)
    \/ severity_order(a.severity) = severity_order(b.severity) /\ a.priority < b.priority

\* RuleEngine.evaluate: list.sort is stable
evaluate(e, context) ==
    StableSortDesc(EvaluateFrom(e, context, LAMBDA rule : TRUE, 1), KeyBefore)

evaluate_for_problem(e, context, problem_type) ==
    EvaluateFrom(e, context, LAMBDA rule : rule.problem_type = problem_type, 1)

(***************************************************************************)
(* State.                                                                  *)
(***************************************************************************)
VARIABLES
    analyzer,          \* the SetupAnalyzer
    recommendations,   \* what the last generate_recommendations returned
    corner_analysis,   \* the last CornerAnalysis of the TelemetryAnalyzer, if any
    correlator,        \* the SetupCorrelator
    correlations,      \* what the last call of the SetupCorrelator returned
    engine,            \* the RuleEngine
    diagnostics,       \* what the last call of the RuleEngine returned
    server,            \* the AGPServer around the SetupAnalyzer: its two tasks
    telemetry_analyzer \* a TelemetryAnalyzer and the sessions it analysed

vars == <<analyzer, recommendations, corner_analysis, correlator, correlations,
          engine, diagnostics, server, telemetry_analyzer>>

setup_analyzer == <<analyzer, recommendations>>
telemetry == <<corner_analysis, correlator, correlations>>
rule_engine == <<engine, diagnostics>>

\* the variables outside the SetupAnalyzer, the TelemetryAnalyzer and the
\* SetupCorrelator
others == <<rule_engine, server, telemetry_analyzer>>

NoDiagnostics == [op |-> "None", value |-> << >>]

NoData == << >>
NothingObserved == [type |-> "None", loop_pc |-> "top", value |-> << >>]

\* AGPServer after start(): the telemetry loop has been created and has not
\* run yet, a client is connected and its handler waits for a message.
\* running is the task that holds the event loop, settled the analyzer as the
\* completed add_sample calls leave it, observed what the last handler read.
NewServer(a) ==
    [connected |-> FALSE, running |-> "none",
     loop_pc |-> "top", data |-> NoData, iterations |-> 0, reconnect_delay |-> 1,
     client_pc |-> "receive", observed |-> NothingObserved,
     broadcast |-> << >>, settled |-> a]

\* the first TelemetryAnalyzer, with no call of analyze_session yet; a call is
\* recorded with the instance it was made on, its session and what it gave
NewSessionAnalyses == [self |-> NewTelemetryAnalyzer, instance |-> 1, calls |-> << >>]

NewOthers ==
    /\ engine = NewEngine
    /\ diagnostics = NoDiagnostics
    /\ server = NewServer(analyzer)
    /\ telemetry_analyzer = NewSessionAnalyses

NoCornerAnalysis == << >>
NoCorrelations == [op |-> "None", raised |-> FALSE, value |-> << >>]

\* a new TelemetryAnalyzer and a new SetupCorrelator
NewTelemetry ==
    /\ corner_analysis = NoCornerAnalysis
    /\ correlator = NewCorrelator
    /\ correlations = NoCorrelations

NoRecommendations ==
    [called |-> FALSE, returned |-> << >>, generated |-> << >>, considered |-> << >>]

\* add_sample, n times with the same record
AddSample(data, n) ==
    /\ analyzer' = add_sample(analyzer, data, n)
    /\ UNCHANGED <<recommendations, telemetry, others>>

GenerateRecommendations ==
    /\ recommendations' = [called |-> TRUE] @@ generate_recommendations(analyzer)
    /\ UNCHANGED <<analyzer, telemetry, others>>

(***************************************************************************)
(* Laps for the recommendation generator: one sample that opens lap 1,     *)
(* then a braking, an entry, a mid-corner, an exit and a straight segment  *)
(* of SegmentLen samples each, then the first sample of lap 2, which makes *)
(* add_sample analyse the lap.                                             *)
(***************************************************************************)
SegmentLen == 30

WithBrakeTemp(data, front) == [data EXCEPT !.brake_temp = <<front, front, 400, 400>>]

RecLap(braking, entry, mid, exit, straight, brake_temp) ==
    LET seg(phase, behavior) ==
            Batch(WithBrakeTemp(Record(phase, behavior), brake_temp), SegmentLen)
    IN  <<Batch(BaseRecord, 1),
          seg("BRAKING", braking), seg("ENTRY", entry), seg("MID", mid),
          seg("EXIT", exit), seg("STRAIGHT", straight),
          Batch(OnLap(BaseRecord, 2), 1)>>

RecLaps ==
    {RecLap(b, e, m, x, s, t) :
        b \in {"neutral", "lock"}, e \in Behaviors, m \in {"neutral", "understeer"},
        x \in {"neutral", "wheelspin", "understeer"}, s \in {"neutral", "nervous"},
        t \in {400, 760, 800}}

InitRec ==
    /\ analyzer \in {NewAnalyzer} \cup {Drive(lap) : lap \in RecLaps}
    /\ recommendations = NoRecommendations
    /\ NewTelemetry
    /\ NewOthers

NextRec == GenerateRecommendations

SpecRec == InitRec /\ [][NextRec]_vars

(***************************************************************************)
(* Claims on generate_recommendations, checked under SpecRec.              *)
(***************************************************************************)
LatestAnalysis == analyzer.lap_analyses[Len(analyzer.lap_analyses)]

\* C1: generate_recommendations returns at most 5 recommendations and no two
\* of them carry the same parameter name.
C1_AtMostFiveDistinct ==
    LET returned == recommendations.returned
    IN  /\ Len(returned) <= 5
        /\ \A i, j \in 1..Len(returned) :
              i # j => returned[i].parameter # returned[j].parameter

\* a run that generated more than 5 recommendations, two of them for the same
\* parameter, and returned 5
C1_Witness ==
    LET generated == recommendations.generated
    IN  /\ recommendations.called
        /\ Len(generated) > 5
        /\ \E i, j \in 1..Len(generated) :
              i # j /\ generated[i].parameter = generated[j].parameter
        /\ Len(recommendations.returned) = 5

\* the top solution of a problem on its own: no effect applied before
IsolatedSolutions(problem) == _find_solutions(problem, NoEffects)

\* the i-th and the j-th considered problem have the same parameter as their
\* top solution, in opposite directions, and the first one was recommended
OpposedTopSolutions(i, j) ==
    LET considered == recommendations.considered
        first == IsolatedSolutions(considered[i].problem)
        second == IsolatedSolutions(considered[j].problem)
    IN  /\ i < j
        /\ first # << >> /\ second # << >>
        /\ first[1].name = second[1].name
        /\ first[1].direction # second[1].direction
        /\ considered[i].solutions # << >>
        /\ considered[i].solutions[1].name = first[1].name

\* C2: when the two problems considered in a run have the same parameter as
\* their top solution in opposite directions, the score computed for the
\* second occurrence is exactly 0.5 times its isolated score |effect|,
\* whichever of the two is processed first.
C2_SecondOccurrenceHalved ==
    LET considered == recommendations.considered
    IN  \A i, j \in 1..Len(considered) :
            (Len(considered) = 2 /\ OpposedTopSolutions(i, j)) =>
                LET param == ParamByName(IsolatedSolutions(considered[j].problem)[1].name)
                IN  2 * PenalizedScore(param, considered[j].problem,
                                       considered[j].applied_effects)
                      = Abs(EffectOn(param, considered[j].problem)) * ScoreUnit

\* C3: if the latest analysed lap has UNDERSTEER_ENTRY at severity 1.0 as its
\* most severe problem, the first recommendation targets the front anti-roll
\* bar or the front spring and its direction is "decrease".
C3_UndersteerEntryDecreasesFront ==
    (/\ recommendations.called
     /\ analyzer.lap_analyses # << >>
     /\ LatestAnalysis.problems # << >>
     /\ StableSortDesc(LatestAnalysis.problems, SeverityGt)[1].problem = "UNDERSTEER_ENTRY"
     /\ REq(SeverityOf(LatestAnalysis.problems, "UNDERSTEER_ENTRY"), Frac(1, 1)))
    => /\ recommendations.returned # << >>
       /\ recommendations.returned[1].parameter
            \in {ParamByName("front_arb").display_name,
                 ParamByName("front_spring").display_name}
       /\ recommendations.returned[1].direction = "decrease"

\* the candidate's effect on eff[1] under the direction it would be moved in
\* (sign flipped for "decrease") is opposite in sign to the accumulated effect
DirectedConflict(eff, direction, applied_effects) ==
    LET mult == IF direction = "increase" THEN 1 ELSE -1
    IN  /\ applied_effects[eff[1]].present
        /\ \/ eff[2] * mult > 0 /\ FSign(applied_effects[eff[1]].value) < 0
           \/ eff[2] * mult < 0 /\ FSign(applied_effects[eff[1]].value) > 0

\* the score the i-th parameter would get for the problem if one conflict
\* under its direction halved it once and nothing else changed it
HalvedOnceScore(param, problem, applied_effects) ==
    LET effect == EffectOn(param, problem)
        direction == IF effect < 0 THEN "increase" ELSE "decrease"
    IN  IF \E i \in 1..Len(param.effects) :
               DirectedConflict(param.effects[i], direction, applied_effects)
        THEN (Abs(effect) * ScoreUnit) \div 2
        ELSE Abs(effect) * ScoreUnit

\* C18: in every _find_solutions call of a run, the score of every candidate
\* (parameter with a nonzero effect on the problem) is |effect| times 0.5,
\* once, if at least one of its effects taken under the candidate's direction
\* is opposite in sign to the accumulated effect, and |effect| otherwise.
C18_HalvedOnceUnderDirection ==
    \A k \in 1..Len(recommendations.considered) :
        LET call == recommendations.considered[k]
        IN  \A i \in 1..Len(parameters) :
                EffectOn(parameters[i], call.problem) # 0 =>
                    PenalizedScore(parameters[i], call.problem, call.applied_effects)
                      = HalvedOnceScore(parameters[i], call.problem, call.applied_effects)

\* C19: the priority of every returned recommendation is a nearest integer to
\* 10 times the severity of the problem it addresses (0.26 gives 3, 0.97
\* gives 10).
C19_PriorityRoundsSeverity ==
    \A i \in 1..Len(recommendations.returned) :
        LET rec == recommendations.returned[i]
        IN  2 * Abs(rec.priority * rec.severity[2] - 10 * rec.severity[1])
              <= rec.severity[2]

\* C20: the returned list is in non-increasing priority order, and no
\* generated recommendation for a returned parameter has a higher priority
\* than the returned one.
C20_SortedHighestKept ==
    LET returned == recommendations.returned
        generated == recommendations.generated
    IN  /\ \A i \in 1..(Len(returned) - 1) :
              returned[i].priority >= returned[i + 1].priority
        /\ \A i \in 1..Len(returned) : \A j \in 1..Len(generated) :
              generated[j].parameter = returned[i].parameter
                  => generated[j].priority <= returned[i].priority

\* a run in which a parameter was generated for two problems with different
\* priorities, and which returned recommendations of different priorities
C20_Witness ==
    LET returned == recommendations.returned
        generated == recommendations.generated
    IN  /\ recommendations.called
        /\ \E i, j \in 1..Len(generated) :
              /\ i < j
              /\ generated[i].parameter = generated[j].parameter
              /\ generated[i].priority # generated[j].priority
        /\ \E i, j \in 1..Len(returned) : returned[i].priority # returned[j].priority

(***************************************************************************)
(* Spec: a session from a new analyzer.  The feed sends batches of equal   *)
(* records on a straight; the records differ in downforce and speed, the   *)
(* lap counter stays or advances by one.                                   *)
(***************************************************************************)
MaxLap == 2
SmallBatch == 60
LargeBatch == 101
MaxSessionSamples == 203

Stopped(data) == [data EXCEPT !.speed = 0, !.speed_kmh = 0]

SessionRecords ==
    {WithDownforce(BaseRecord, d) : d \in {8000, 8001, 15000, 15001}}
    \cup {Stopped(WithDownforce(BaseRecord, d)) : d \in {5000, 15001}}

Init ==
    /\ analyzer = NewAnalyzer
    /\ recommendations = NoRecommendations
    /\ NewTelemetry
    /\ NewOthers

Feed ==
    \E data \in SessionRecords, n \in {SmallBatch, LargeBatch},
       lap \in {analyzer.current_lap, analyzer.current_lap + 1} :
        /\ lap <= MaxLap
        /\ Count(analyzer.samples) + n <= MaxSessionSamples
        /\ AddSample(OnLap(data, lap), n)

Next == Feed \/ GenerateRecommendations

Spec == Init /\ [][Next]_vars

(***************************************************************************)
(* SpecBuffer: the buffers of the SetupAnalyzer over long feeds.  The      *)
(* initial states are a new analyzer and an analyzer that has driven       *)
(* SessionLaps laps of LapLen samples each, which fills the raw-sample     *)
(* buffer and the lap history.  A new lap opens with 1, 100 or 101 samples *)
(* on a straight, so that the lap has 0, 99 or 100 samples of its own when *)
(* the next one opens; within a lap the feed sends batches of BigBatch     *)
(* mid-corner samples, on lap 0 as on the others.                          *)
(***************************************************************************)
FirstLaps == 2
SessionLaps == 21
LapLen == 250
BigBatch == 2600
MaxLapBuffer == 5300

RECURSIVE SessionFrom(_, _)
SessionFrom(lap, last) ==
    IF lap > last THEN << >>
    ELSE <<Batch(OnLap(BaseRecord, lap), LapLen)>> \o SessionFrom(lap + 1, last)

\* the analyzer after laps 1..SessionLaps, the last one in progress
LongSession == Drive(SessionFrom(1, SessionLaps))

\* the lap numbers the feed may open
BufferLaps == (1..FirstLaps) \cup ((SessionLaps + 1)..(SessionLaps + 2))

LapOpenings == {1, MinLapSamples, MinLapSamples + 1}

InitBuffer ==
    /\ analyzer \in {NewAnalyzer, LongSession}
    /\ recommendations = NoRecommendations
    /\ NewTelemetry
    /\ NewOthers

OpenLap ==
    \E n \in LapOpenings :
        /\ analyzer.current_lap + 1 \in BufferLaps
        /\ AddSample(OnLap(BaseRecord, analyzer.current_lap + 1), n)

StayOnLap ==
    /\ Count(analyzer.current_lap_samples) + BigBatch <= MaxLapBuffer
    /\ AddSample(OnLap(Record("MID", "neutral"), analyzer.current_lap), BigBatch)

NextBuffer == OpenLap \/ StayOnLap

SpecBuffer == InitBuffer /\ [][NextBuffer]_vars

\* the feeds of SpecBuffer: the record and the number of add_sample calls
BufferFeeds ==
    {Batch(BaseRecord, n) : n \in LapOpenings} \cup {Batch(Record("MID", "neutral"), BigBatch)}

\* s[1..Len(s) - 1]
Front(s) == SubSeq(s, 1, Len(s) - 1)

\* the step appended the analysis of the lap that was in progress: the new
\* history is the old one, possibly without its oldest entry, and that analysis
AnalysedCompletedLap ==
    /\ analyzer'.lap_analyses # << >>
    /\ analyzer'.lap_analyses[Len(analyzer'.lap_analyses)].lap_number = analyzer.current_lap
    /\ Front(analyzer'.lap_analyses)
         = IF Len(analyzer.lap_analyses) = MaxLapAnalyses
           THEN Tail(analyzer.lap_analyses) ELSE analyzer.lap_analyses
    /\ analyzer'.lap_analyses # analyzer.lap_analyses

\* C13: on each lap-number transition seen by add_sample, the completed lap
\* is analysed exactly once (one LapAnalysis is appended) if it has at least
\* 100 samples, and skipped (the history stays as it is) if it has fewer.
C13_CompletedLapAnalysedOnce ==
    [][analyzer'.current_lap # analyzer.current_lap =>
          IF Count(analyzer.current_lap_samples) >= MinLapSamples
          THEN AnalysedCompletedLap
          ELSE analyzer'.lap_analyses = analyzer.lap_analyses]_vars

\* the run-length encoded buffer s is the end of the buffer t
SuffixOf(s, t) ==
    \/ s = << >>
    \/ /\ Len(s) <= Len(t)
       /\ \A i \in 2..Len(s) : s[i] = t[Len(t) - Len(s) + i]
       /\ s[1].sample = t[Len(t) - Len(s) + 1].sample
       /\ s[1].n <= t[Len(t) - Len(s) + 1].n

\* the raw-sample buffer after the step holds the most recent 5000 of the
\* samples it held and of the samples the feed added, in arrival order
KeepsMostRecent(feed) ==
    LET sample == MakeSample(OnLap(feed.data, analyzer'.current_lap))
        arrived == AppendRun(analyzer.samples, sample, feed.n)
    IN  /\ Count(analyzer'.samples) = Min(MaxSamples, Count(arrived))
        /\ SuffixOf(analyzer'.samples, arrived)

\* the lap history after the step is the old one, or the old one with one
\* analysis appended and, if it was full, its oldest entry evicted
KeepsLatestLaps ==
    \/ analyzer'.lap_analyses = analyzer.lap_analyses
    \/ /\ analyzer'.lap_analyses # << >>
       /\ Front(analyzer'.lap_analyses)
            = IF Len(analyzer.lap_analyses) = MaxLapAnalyses
              THEN Tail(analyzer.lap_analyses) ELSE analyzer.lap_analyses

\* C14: the raw-sample buffer never holds more than 5000 samples and the lap
\* history never more than 20 analyses; when one is full a new element evicts
\* exactly the oldest and the remaining elements keep their arrival order.
C14_BoundedFifo ==
    [][/\ Count(analyzer'.samples) <= MaxSamples
       /\ Len(analyzer'.lap_analyses) <= MaxLapAnalyses
       /\ \E feed \in BufferFeeds : KeepsMostRecent(feed)
       /\ KeepsLatestLaps]_vars

\* both buffers are full and have evicted: the history holds laps 3 to 22 and
\* the oldest raw sample is of a later lap than lap 1
C14_Witness ==
    /\ Count(analyzer.samples) = MaxSamples
    /\ analyzer.samples[1].sample.lap_number > 1
    /\ Len(analyzer.lap_analyses) = MaxLapAnalyses
    /\ analyzer.lap_analyses[1].lap_number = 3
    /\ analyzer.lap_analyses[MaxLapAnalyses].lap_number = SessionLaps + 1

\* the bound the retained samples would keep if the current-lap buffer were a
\* window like the raw-sample buffer
RetainedBound == 2 * MaxSamples

\* C15: the number of samples retained in the raw-sample buffer and the
\* current-lap buffer together stays below a fixed bound.
C15_RetainedSamplesBounded ==
    Count(analyzer.samples) + Count(analyzer.current_lap_samples) <= RetainedBound

(***************************************************************************)
(* SpecLap: the analysis of a lap.  The initial states are analyzers with  *)
(* lap 1 in progress, each reached from a new analyzer by Drive; the       *)
(* action adds the first record of lap 2, which makes add_sample analyse   *)
(* lap 1 with that record in it.                                           *)
(***************************************************************************)
MaxPhaseSamples == 19

\* lap 1 with a straight and total samples of one corner phase, of which
\* under are understeering and over oversteering
PhaseLap(phase, total, under, over) ==
    <<Batch(BaseRecord, 1),
      Batch(BaseRecord, MinLapSamples),
      Batch(Record(phase, "understeer"), under),
      Batch(Record(phase, "oversteer"), over),
      Batch(Record(phase, "neutral"), total - under - over)>>

PhaseCounts ==
    {c \in [total : {MinPhaseSamples - 1, MaxPhaseSamples},
            under : 0..MaxPhaseSamples, over : 0..MaxPhaseSamples] :
        c.under + c.over <= c.total}

PhaseLaps ==
    {PhaseLap(phase, c.total, c.under, c.over) : phase \in CornerPhases, c \in PhaseCounts}

\* the tire temperatures of the model: around the upper bounds 95 and 98
TireTemps == {85, 94, 95, 96, 98, 99, 105, 106, 108, 120}

\* lap 1 on a straight with the downforce of one category and the front and
\* rear tires at one temperature each
ThermalLap(downforce, front, rear) ==
    <<Batch(WithDownforce(BaseRecord, downforce), 1),
      Batch(WithTireTemp(WithDownforce(BaseRecord, downforce), front, rear), MinLapSamples)>>

ThermalLaps ==
    {ThermalLap(d, front, rear) :
        d \in {5000, 12000, 20000}, front \in TireTemps, rear \in {85, 95, 98, 120}}

LapsInProgress ==
    {Drive(lap) : lap \in PhaseLaps \cup ThermalLaps}

\* the first record of the next lap
NextLapRecords ==
    {Record(phase, behavior) : phase \in CornerPhases, behavior \in Behaviors}
    \cup {WithTireTemp(BaseRecord, t, t) : t \in {95, 98, 120}}

InitLap ==
    /\ analyzer \in LapsInProgress
    /\ recommendations = NoRecommendations
    /\ NewTelemetry
    /\ NewOthers

NextLap ==
    \E data \in NextLapRecords :
        /\ analyzer.current_lap < MaxLap
        /\ AddSample(OnLap(data, analyzer.current_lap + 1), 1)

SpecLap == InitLap /\ [][NextLap]_vars

(***************************************************************************)
(* Claims on the lap analysis, checked under SpecLap.                      *)
(***************************************************************************)
Analyses == {analyzer.lap_analyses[i] : i \in 1..Len(analyzer.lap_analyses)}

Has(analysis, problem) ==
    \E i \in 1..Len(analysis.problems) : analysis.problems[i].problem = problem

\* the samples of a phase in the analysed list, and how many of them are
\* classified as a behavior
PhaseCount(analysis, phase) ==
    Count(Select(analysis.samples, LAMBDA s : s.phase = phase))
BehaviorCount(analysis, phase, behavior) ==
    Count(Select(analysis.samples, LAMBDA s : s.phase = phase /\ BehaviorOf(s) = behavior))
Fraction(analysis, phase, behavior) ==
    Frac(BehaviorCount(analysis, phase, behavior), PhaseCount(analysis, phase))

ProblemOf(phase, behavior) ==
    CASE phase = "ENTRY" /\ behavior = "understeer" -> "UNDERSTEER_ENTRY"
      [] phase = "MID" /\ behavior = "understeer" -> "UNDERSTEER_MID"
      [] phase = "EXIT" /\ behavior = "understeer" -> "UNDERSTEER_EXIT"
      [] phase = "ENTRY" /\ behavior = "oversteer" -> "OVERSTEER_ENTRY"
      [] phase = "MID" /\ behavior = "oversteer" -> "OVERSTEER_MID"
      [] phase = "EXIT" /\ behavior = "oversteer" -> "OVERSTEER_EXIT"

FloorOf(phase, behavior) ==
    CASE phase = "ENTRY" /\ behavior = "understeer" -> Frac(35, 100)
      [] phase = "MID" /\ behavior = "understeer" -> Frac(40, 100)
      [] phase = "EXIT" /\ behavior = "understeer" -> Frac(35, 100)
      [] phase = "ENTRY" /\ behavior = "oversteer" -> Frac(30, 100)
      [] phase = "MID" /\ behavior = "oversteer" -> Frac(35, 100)
      [] phase = "EXIT" /\ behavior = "oversteer" -> Frac(30, 100)

\* the problem of the phase is present iff the fraction strictly exceeds the
\* floor, and its severity is then the fraction
PresentIffAboveFloor(analysis, phase, behavior) ==
    LET problem == ProblemOf(phase, behavior)
        above == /\ PhaseCount(analysis, phase) > 0
                 /\ RLt(FloorOf(phase, behavior), Fraction(analysis, phase, behavior))
    IN  /\ Has(analysis, problem) <=> above
        /\ above => REq(SeverityOf(analysis.problems, problem),
                        Fraction(analysis, phase, behavior))

\* C4, as the code has it: for a lap with at least 10 samples of phase P, the
\* understeer (resp. oversteer) problem of P is present iff the fraction of
\* the P-phase samples classified so strictly exceeds the floor, and the
\* severity is then exactly that fraction; with fewer than 10 samples of P
\* the lap analysis has neither problem of P.
C4_FloorsFromTenSamples ==
    \A analysis \in Analyses : \A phase \in CornerPhases : \A behavior \in {"understeer", "oversteer"} :
        IF PhaseCount(analysis, phase) >= 10
        THEN PresentIffAboveFloor(analysis, phase, behavior)
        ELSE ~Has(analysis, ProblemOf(phase, behavior))

\* C4, as stated: the same equivalence whatever the number of P-phase samples
C4_FloorsWhateverTheCount ==
    \A analysis \in Analyses : \A phase \in CornerPhases : \A behavior \in {"understeer", "oversteer"} :
        PresentIffAboveFloor(analysis, phase, behavior)

\* a lap with 20 entry samples, 8 of them understeering (0.4 > 0.35: present,
\* severity 8/20) and 6 oversteering (0.3, the floor itself: absent)
C4_Witness ==
    \E analysis \in Analyses :
        /\ PhaseCount(analysis, "ENTRY") = 20
        /\ BehaviorCount(analysis, "ENTRY", "understeer") = 8
        /\ BehaviorCount(analysis, "ENTRY", "oversteer") = 6
        /\ Has(analysis, "UNDERSTEER_ENTRY")
        /\ REq(SeverityOf(analysis.problems, "UNDERSTEER_ENTRY"), Frac(8, 20))
        /\ ~Has(analysis, "OVERSTEER_ENTRY")

\* the upper tire_temp bound of each category
UpperTireTemp(category) ==
    CASE category = "GT3" -> 95 [] category = "LMP2" -> 95 [] category = "LMH" -> 98

\* the average temperature of two wheels over the analysed list
AverageTemp(analysis, i, j) ==
    Frac(SumOver(analysis.samples, LAMBDA s : s.tire_temp[i] + s.tire_temp[j]),
         2 * Count(analysis.samples))

OverheatAsClaimed(analysis, problem, temp) ==
    LET bound == UpperTireTemp(analysis.vehicle_category)
        excess == Frac(temp[1] - bound * temp[2], 10 * temp[2])
    IN  /\ REq(temp, Frac(bound, 1)) => ~Has(analysis, problem)
        /\ RLt(Frac(bound, 1), temp) =>
              /\ Has(analysis, problem)
              /\ REq(SeverityOf(analysis.problems, problem),
                     IF RLt(Frac(1, 1), excess) THEN Frac(1, 1) ELSE excess)
              /\ RLe(Frac(bound + 10, 1), temp) =>
                     REq(SeverityOf(analysis.problems, problem), Frac(1, 1))

\* C7: for the category in force, a lap whose average front (resp. rear) tire
\* temperature equals the upper tire_temp bound has no front (resp. rear)
\* overheat problem; at a temperature t above the bound the severity is
\* min(1, (t - bound) / 10), exactly 1 at 10 or more above the bound.
C7_OverheatAboveBoundOnly ==
    \A analysis \in Analyses :
        /\ OverheatAsClaimed(analysis, "TIRE_OVERHEAT_FRONT", AverageTemp(analysis, 1, 2))
        /\ OverheatAsClaimed(analysis, "TIRE_OVERHEAT_REAR", AverageTemp(analysis, 3, 4))

\* an LMH lap with the front average at its bound 98 and no front overheat,
\* and the rear average 10 or more above it with severity 1
C7_Witness ==
    \E analysis \in Analyses :
        /\ analysis.vehicle_category = "LMH"
        /\ REq(AverageTemp(analysis, 1, 2), Frac(98, 1))
        /\ ~Has(analysis, "TIRE_OVERHEAT_FRONT")
        /\ RLe(Frac(108, 1), AverageTemp(analysis, 3, 4))
        /\ REq(SeverityOf(analysis.problems, "TIRE_OVERHEAT_REAR"), Frac(1, 1))

(***************************************************************************)
(* Claims on the vehicle category, checked under Spec.                     *)
(***************************************************************************)
LastSample(a) == a.samples[Len(a.samples)].sample

CategoryOf(d) == IF d > 15000 THEN "LMH" ELSE IF d > 8000 THEN "LMP2" ELSE "GT3"

\* C6, as the code has it: after add_sample has processed a sample with
\* speed_kmh > 0 and combined downforce d, the category is LMH iff d > 15000,
\* LMP2 iff 8000 < d <= 15000 and GT3 otherwise, whatever the previous
\* category; a sample with speed_kmh = 0 leaves the category as it was.
C6_CategoryFromMovingSample ==
    [][analyzer'.samples # << >> =>
         LET s == LastSample(analyzer')
         IN  analyzer'.vehicle_category =
                IF s.speed > 0 THEN CategoryOf(s.front_downforce + s.rear_downforce)
                ELSE analyzer.vehicle_category]_vars

\* C6, as stated: the category follows the downforce of the last sample,
\* whatever its other fields
C6_CategoryFromAnySample ==
    analyzer.samples # << >> =>
        analyzer.vehicle_category
          = CategoryOf(LastSample(analyzer).front_downforce + LastSample(analyzer).rear_downforce)

\* a moving sample with d = 15000 after samples with d = 15001: LMH became LMP2
C6_Witness ==
    /\ Len(analyzer.samples) >= 2
    /\ LET s == LastSample(analyzer)
           before == analyzer.samples[Len(analyzer.samples) - 1].sample
       IN  /\ s.speed > 0 /\ s.front_downforce + s.rear_downforce = 15000
           /\ before.speed > 0 /\ before.front_downforce + before.rear_downforce = 15001
    /\ analyzer.vehicle_category = "LMP2"

(***************************************************************************)
(* The actions of the TelemetryAnalyzer and of the SetupCorrelator.        *)
(***************************************************************************)
AnalyzeCornerPassage(runs) ==
    /\ corner_analysis' = <<_analyze_single_corner(Expand(runs))>>
    /\ UNCHANGED <<setup_analyzer, correlator, correlations, others>>

AddSessionWith(session, setup) ==
    /\ correlator' = add_session(correlator, session, setup)
    /\ correlations' = NoCorrelations
    /\ UNCHANGED <<setup_analyzer, corner_analysis, others>>

AnalyzeCorrelations ==
    \E r \in {analyze_correlations(correlator)} :
        /\ correlator' = r.correlator
        /\ correlations' = [op |-> "analyze_correlations", raised |-> r.raised,
                            value |-> r.value]
        /\ UNCHANGED <<setup_analyzer, corner_analysis, others>>

GetBehaviorCorrelations ==
    \E r \in {get_behavior_correlations(correlator)} :
        /\ correlations' = [op |-> "get_behavior_correlations", raised |-> r.raised,
                            value |-> r.value]
        /\ UNCHANGED <<setup_analyzer, corner_analysis, correlator, others>>

\* get_optimal_setup_suggestions() or generate_report()
SuggestOrReport ==
    \E api \in {"get_optimal_setup_suggestions", "generate_report"} :
        \E r \in {Query(api, correlator)} :
            /\ correlator' = r.correlator
            /\ correlations' = [op |-> api, raised |-> r.raised, value |-> r.value]
            /\ UNCHANGED <<setup_analyzer, corner_analysis, others>>

(***************************************************************************)
(* Telemetry points of the model, several of them far out of range: slip   *)
(* angles of 900 degrees, 720 degrees of steering, 250 percent throttle, a *)
(* slip ratio of 5.                                                        *)
(***************************************************************************)
CalmPoint ==
    [slip_angle |-> <<20, 20, 20, 20>>, steering |-> 10, g_lat |-> 150, throttle |-> 30,
     slip_ratio_rl |-> 10, slip_ratio_rr |-> 10, corner_phase |-> "APEX"]

PushPoint == [CalmPoint EXCEPT !.slip_angle = <<300, 300, 20, 20>>, !.corner_phase = "TURN_IN"]
MildPushPoint == [CalmPoint EXCEPT !.slip_angle = <<140, 140, 20, 20>>]
LoosePoint == [CalmPoint EXCEPT !.slip_angle = <<20, -20, -9000, 9000>>, !.corner_phase = "EXIT"]
SaturatedPoint == [CalmPoint EXCEPT !.steering = 720, !.g_lat = 0]
CounterPoint == [CalmPoint EXCEPT !.steering = -400, !.g_lat = -300]
SpinPoint ==
    [CalmPoint EXCEPT !.slip_angle = <<9000, 9000, 20, 20>>, !.throttle = 250,
                      !.slip_ratio_rl = -5000, !.corner_phase = "EXIT"]
MildSpinPoint == [CalmPoint EXCEPT !.throttle = 80, !.slip_ratio_rr = 200]

CornerPoints ==
    {CalmPoint, PushPoint, MildPushPoint, LoosePoint, SaturatedPoint, CounterPoint,
     SpinPoint, MildSpinPoint}

LongRun == 4

\* the corner passages of the model: one or two runs of 1 or LongRun points
PointRuns == [point : CornerPoints, n : {1, LongRun}]

Passages == {<<a>> : a \in PointRuns} \cup {<<a, b>> : a \in PointRuns, b \in PointRuns}

(***************************************************************************)
(* SpecSeverity: samples and telemetry points far out of range.  The       *)
(* initial states are analyzers with lap 1 in progress, driven with        *)
(* records at 1000 and -273 degrees, negative grip and ride heights, and   *)
(* wheels that stand still or turn twenty times too fast.                  *)
(***************************************************************************)
ScorchedRecord ==
    [BaseRecord EXCEPT !.speed_kmh = 400, !.steering = 8,
                       !.tire_temp = <<1000, 1000, 2000, 96>>,
                       !.brake_temp = <<5000, 0, -100, 781>>,
                       !.ride_height = <<-100, 900, 0, 0>>]

FrozenRecord ==
    [InPhase(BaseRecord, "ENTRY") EXCEPT !.tire_temp = <<-273, -273, -273, 74>>,
                                         !.grip = <<-300, -300, 500, 500>>,
                                         !.rotation = <<0, 0, 0, 0>>,
                                         !.ride_height = <<2, 2, 2, 2>>]

SpinningRecord ==
    [InPhase(BaseRecord, "EXIT") EXCEPT !.grip = <<500, 500, -300, -300>>,
                                        !.rotation = <<200, 200, 4000, -4000>>,
                                        !.tire_temp = <<-50, 2000, 85, 85>>]

ExtremeRecords == {ScorchedRecord, FrozenRecord, SpinningRecord}

\* lap 1 with first samples of one record and then samples of another
ExtremeLap(first, then) ==
    <<Batch(first, 1), Batch(first, MinLapSamples \div 2),
      Batch(then, MinLapSamples - MinLapSamples \div 2)>>

ExtremeLaps ==
    {ExtremeLap(data, data) : data \in ExtremeRecords}
    \cup {ExtremeLap(FrozenRecord, SpinningRecord)}

InitSeverity ==
    /\ analyzer \in {Drive(lap) : lap \in ExtremeLaps}
    /\ recommendations = NoRecommendations
    /\ NewTelemetry
    /\ NewOthers

NextLapExtreme ==
    \E data \in ExtremeRecords :
        /\ analyzer.current_lap < MaxLap
        /\ AddSample(OnLap(data, analyzer.current_lap + 1), 1)

AnalyzeCorner == \E runs \in Passages : AnalyzeCornerPassage(runs)

NextSeverity == NextLapExtreme \/ AnalyzeCorner

SpecSeverity == InitSeverity /\ [][NextSeverity]_vars

\* C5: every severity in the problems of a LapAnalysis lies in [0, 1], and the
\* understeer, oversteer and traction-loss severities of a CornerAnalysis lie
\* in [0, 100], also for sample values far out of range.
Within(severity, low, high) == RLe(Frac(low, 1), severity) /\ RLe(severity, Frac(high, 1))

C5_SeveritiesInRange ==
    /\ \A analysis \in Analyses : \A i \in 1..Len(analysis.problems) :
          Within(analysis.problems[i].severity, 0, 1)
    /\ \A i \in 1..Len(corner_analysis) :
          /\ Within(corner_analysis[i].understeer_severity, 0, 100)
          /\ Within(corner_analysis[i].oversteer_severity, 0, 100)
          /\ Within(corner_analysis[i].traction_loss_severity, 0, 100)

\* a lap at 1000 degrees whose overheat severity is clamped to 1, and a corner
\* whose three severities are clamped to 100
C5_Witness ==
    /\ \E analysis \in Analyses : \E i \in 1..Len(analysis.problems) :
          /\ analysis.problems[i].problem = "TIRE_OVERHEAT_FRONT"
          /\ REq(analysis.problems[i].severity, Frac(1, 1))
          /\ RLe(Frac(1000, 1), AverageTemp(analysis, 1, 2))
    /\ corner_analysis # NoCornerAnalysis
    /\ REq(corner_analysis[1].understeer_severity, Frac(100, 1))
    /\ REq(corner_analysis[1].oversteer_severity, Frac(100, 1))
    /\ REq(corner_analysis[1].traction_loss_severity, Frac(100, 1))

(***************************************************************************)
(* SpecCorr: the SetupCorrelator.  Sessions are added one by one: a best   *)
(* lap of 90.0 seconds with an understeering corner or of 90.37 seconds    *)
(* without corner data, on a setup with a preload of 1.3 and a brake bias  *)
(* of 120 percent or on one with a preload of 1.5 and no brakes.  The      *)
(* initial states are a new correlator and correlators that were given the *)
(* series value = i, outcome = 100 - i for i = 1..n.                       *)
(***************************************************************************)
MaxSessions == 3
SeriesLen == 10

Passage(point) == <<[point |-> point, n |-> LongRun]>>

TestSessions ==
    {[best_lap_time |-> Hundredths(9000), corners |-> <<Passage(PushPoint), << >> >>],
     [best_lap_time |-> Hundredths(9037), corners |-> << >>]}

TestSetups ==
    {[differential |-> <<[preload |-> Tenths(13)]>>, brakes |-> <<[bias |-> Tenths(1200)]>>],
     [differential |-> <<[preload |-> Tenths(15)]>>, brakes |-> << >>]}

\* the correlator c after the further sessions value = i, outcome = 100 - i,
\* i = from..n
RECURSIVE SeriesFrom(_, _, _)
SeriesFrom(c, from, n) ==
    IF from > n \/ Len(c.sessions) < 0 THEN c
    ELSE SeriesFrom(add_session(c, [best_lap_time |-> Hundredths((100 - from) * 100),
                                    corners |-> << >>],
                                [differential |-> <<[preload |-> Tenths(10 * from)]>>,
                                 brakes |-> << >>]),
                    from + 1, n)

LinearSeries(n) == SeriesFrom(NewCorrelator, 1, n)

InitCorr ==
    /\ analyzer = NewAnalyzer
    /\ recommendations = NoRecommendations
    /\ corner_analysis = NoCornerAnalysis
    /\ correlator \in {NewCorrelator, LinearSeries(2), LinearSeries(SeriesLen)}
    /\ correlations = NoCorrelations
    /\ NewOthers

AddSession ==
    \E session \in TestSessions, setup \in TestSetups :
        /\ Len(correlator.sessions) < MaxSessions
        /\ AddSessionWith(session, setup)

NextCorr ==
    \/ AddSession
    \/ AnalyzeCorrelations
    \/ GetBehaviorCorrelations

SpecCorr == InitCorr /\ [][NextCorr]_vars

EntriesOf(name) ==
    SelectSeq(correlations.value, LAMBDA entry : entry.parameter_name = name)

Ranges == {correlator.parameter_ranges[i] : i \in 1..Len(correlator.parameter_ranges)}

\* C8: with no session or one session, analyze_correlations returns an empty
\* list and get_behavior_correlations an empty dict, and neither raises.
C8_FewSessionsGiveNothing ==
    (/\ Len(correlator.sessions) < 2
     /\ correlations.op \in {"analyze_correlations", "get_behavior_correlations"})
    => (~correlations.raised /\ correlations.value = << >>)

\* get_behavior_correlations has answered a correlator with one session and
\* two recorded parameters
C8_Witness ==
    /\ Len(correlator.sessions) = 1
    /\ Len(correlator.parameter_ranges) = 2
    /\ correlations.op = "get_behavior_correlations"
    /\ correlations.value = << >>

AllEqual(s) == \A i \in 1..Len(s) : s[i] = s[1]

ZeroVariance(range) == AllEqual(range.scaled_values) \/ AllEqual(range.scaled_lap_times)

\* the correlator that never recorded the parameters of zero variance
WithoutZeroVariance(c) ==
    [c EXCEPT !.parameter_ranges = SelectSeq(@, LAMBDA range : ~ZeroVariance(range))]

\* C9: with two or more sessions, analyze_correlations raises nothing, has no
\* entry for a parameter whose values or lap times are all equal, and has for
\* the other parameters the entries it has when that parameter was never
\* recorded.
C9_ZeroVarianceOmitted ==
    (/\ Len(correlator.sessions) >= 2
     /\ correlations.op = "analyze_correlations")
    => /\ ~correlations.raised
       /\ \A range \in Ranges : ZeroVariance(range) => EntriesOf(range.parameter_name) = << >>
       /\ correlations.value = analyze_correlations(WithoutZeroVariance(correlator)).value

\* the lap times of a range are an exact decreasing linear function of its values
ExactDecreasingLine(range) ==
    LET x == range.scaled_values
        y == range.scaled_lap_times
    IN  \E i \in 1..Len(x), j \in 1..Len(x) :
            /\ x[i] < x[j]
            /\ y[j] < y[i]
            /\ \A k \in 1..Len(x) :
                  (y[k] - y[i]) * (x[j] - x[i]) = (y[j] - y[i]) * (x[k] - x[i])

\* the values and the lap times of a range are whole numbers
WholeNumbers(range) ==
    /\ \A i \in 1..Len(range.scaled_values) : range.scaled_values[i] % 10 = 0
    /\ \A i \in 1..Len(range.scaled_lap_times) : range.scaled_lap_times[i] % 100 = 0

Answered ==
    correlations.op = "analyze_correlations" /\ ~correlations.raised

MaxSeriesSessions == 3

SeriesInputs ==
    {<<session, setup>> \in TestSessions \X TestSetups :
        session.corners # << >> => setup.brakes # << >>}

InitSeries ==
    /\ analyzer = NewAnalyzer
    /\ recommendations = NoRecommendations
    /\ corner_analysis = NoCornerAnalysis
    /\ correlator = NewCorrelator
    /\ correlations = NoCorrelations
    /\ NewOthers

AddSeriesSession ==
    \E input \in SeriesInputs :
        /\ Len(correlator.sessions) < MaxSeriesSessions
        /\ AddSessionWith(input[1], input[2])

NextSeries ==
    \/ AddSeriesSession
    \/ AnalyzeCorrelations
    \/ GetBehaviorCorrelations
    \/ SuggestOrReport

SpecSeries == InitSeries /\ [][NextSeries]_vars

\* the series of the parameter in the ranges: its (value, lap time) pairs,
\* none if the parameter was never recorded
SeriesOf(ranges, name) ==
    IF \E i \in 1..Len(ranges) : ranges[i].parameter_name = name
    THEN [values |-> ranges[RangeIndex(ranges, name)].values,
          lap_times |-> ranges[RangeIndex(ranges, name)].lap_times]
    ELSE [values |-> << >>, lap_times |-> << >>]

IsPrefix(s, t) == Len(s) <= Len(t) /\ SubSeq(t, 1, Len(s)) = s

RecordedNames(ranges) == {ranges[i].parameter_name : i \in 1..Len(ranges)}

\* the step appends exactly one pair, the parameter's value and the session's
\* best lap time, to the series of every parameter of the setup, and leaves
\* the other series as they are
AppendsOnePairEach(session, setup) ==
    LET params == _extract_setup_parameters(setup)
        present == {params[i].name : i \in 1..Len(params)}
        old == correlator.parameter_ranges
        new == correlator'.parameter_ranges
    IN  /\ RecordedNames(new) = RecordedNames(old) \cup present
        /\ \A i \in 1..Len(params) :
              /\ SeriesOf(new, params[i].name).values
                   = Append(SeriesOf(old, params[i].name).values, params[i].value.value)
              /\ SeriesOf(new, params[i].name).lap_times
                   = Append(SeriesOf(old, params[i].name).lap_times,
                            session.best_lap_time.value)
        /\ \A name \in RecordedNames(old) \ present :
              SeriesOf(new, name) = SeriesOf(old, name)

\* C17: the per-parameter series of the correlator are append-only.  In every
\* step the value list and the lap-time list of every parameter keep their
\* earlier pairs in place and have the same length afterwards; a step of
\* add_session appends exactly one (value, lap time) pair per parameter
\* present in the setup; a step of analyze_correlations,
\* get_behavior_correlations, get_optimal_setup_suggestions or generate_report
\* leaves every series as it is.
C17_SeriesAppendOnly ==
    [][/\ \A name \in RecordedNames(correlator.parameter_ranges) :
             /\ IsPrefix(SeriesOf(correlator.parameter_ranges, name).values,
                         SeriesOf(correlator'.parameter_ranges, name).values)
             /\ IsPrefix(SeriesOf(correlator.parameter_ranges, name).lap_times,
                         SeriesOf(correlator'.parameter_ranges, name).lap_times)
       /\ \A name \in RecordedNames(correlator'.parameter_ranges) :
             Len(SeriesOf(correlator'.parameter_ranges, name).values)
               = Len(SeriesOf(correlator'.parameter_ranges, name).lap_times)
       /\ IF Len(correlator'.sessions) # Len(correlator.sessions)
          THEN \E session \in TestSessions, setup \in TestSetups :
                  /\ correlator' = add_session(correlator, session, setup)
                  /\ AppendsOnePairEach(session, setup)
          ELSE \A name \in RecordedNames(correlator'.parameter_ranges) :
                  SeriesOf(correlator'.parameter_ranges, name)
                    = SeriesOf(correlator.parameter_ranges, name)]_vars

\* three sessions were added, one of them on a setup without brakes, and
\* generate_report has answered: the preload series has three pairs, the
\* brake bias series fewer
C17_Witness ==
    /\ Len(correlator.sessions) = MaxSeriesSessions
    /\ correlations.op = "generate_report"
    /\ ~correlations.raised
    /\ Len(SeriesOf(correlator.parameter_ranges, "diff_preload").values) = MaxSeriesSessions
    /\ Len(SeriesOf(correlator.parameter_ranges, "brake_bias").values) \in 1..(MaxSeriesSessions - 1)

(***************************************************************************)
(* SpecRules: the RuleEngine.  Rules are registered one by one, in any     *)
(* order and possibly twice, up to MaxRules; evaluate and                  *)
(* evaluate_for_problem are called with the feedbacks and the setups       *)
(* below.                                                                  *)
(***************************************************************************)
MaxRules == 3

Feedbacks ==
    {<< >>,
     <<"REAR", "LOCK">>,
     <<"rear", "lockup">>,
     <<"lock", "rear">>,
     <<"front", "lock">>,
     <<"Power", "OVERSTEER">>,
     <<"snap", "oversteering", "and", "front", "locks">>,
     <<"spin", "braking", "then", "power", "oversteer">>}

BareSetup == [brakes |-> << >>, differential |-> << >>, suspension |-> << >>, aero |-> << >>]

RuleSetups ==
    {BareSetup,
     [BareSetup EXCEPT !.brakes = <<[pressure |-> 95]>>],
     [brakes |-> <<[pressure |-> 80]>>, differential |-> <<"differential">>,
      suspension |-> <<"suspension">>, aero |-> <<"aero">>]}

Contexts == [setup : RuleSetups, driver_feedback : Feedbacks]

ProblemTypes == {rule.problem_type : rule \in Rules}

InitRules ==
    /\ analyzer = NewAnalyzer
    /\ recommendations = NoRecommendations
    /\ NewTelemetry
    /\ NewOthers

RegisterRule ==
    \E rule \in Rules :
        /\ Len(engine.rules) < MaxRules
        /\ engine' = register_rule(engine, rule)
        /\ diagnostics' = [op |-> "register_rule", value |-> << >>]
        /\ UNCHANGED <<setup_analyzer, telemetry, server, telemetry_analyzer>>

Evaluate ==
    \E context \in Contexts :
        /\ diagnostics' = [op |-> "evaluate", value |-> evaluate(engine, context)]
        /\ UNCHANGED <<setup_analyzer, telemetry, engine, server, telemetry_analyzer>>

EvaluateForProblem ==
    \E context \in Contexts, problem_type \in ProblemTypes :
        /\ diagnostics' = [op |-> "evaluate_for_problem",
                           value |-> evaluate_for_problem(engine, context, problem_type)]
        /\ UNCHANGED <<setup_analyzer, telemetry, engine, server, telemetry_analyzer>>

NextRules == RegisterRule \/ Evaluate \/ EvaluateForProblem

SpecRules == InitRules /\ [][NextRules]_vars

\* C12: every diagnostic that evaluate or evaluate_for_problem returns for
\* the rear lock-up rule or the power oversteer rule has severity CRITICAL,
\* whatever other rules matched, whatever the registration order and the
\* setup.
C12_DangerousAlwaysCritical ==
    \A i \in 1..Len(diagnostics.value) :
        diagnostics.value[i].title \in {RearLockupRule.name, PowerOversteerRule.name}
            => diagnostics.value[i].severity = "CRITICAL"

\* evaluate has returned a power oversteer diagnostic, CRITICAL, ahead of a
\* WARNING diagnostic of a rule that was registered before the power
\* oversteer rule
C12_Witness ==
    /\ diagnostics.op = "evaluate"
    /\ Len(engine.rules) >= 2
    /\ engine.rules[1].severity = "WARNING"
    /\ engine.rules[1].id # PowerOversteerRule.id
    /\ \E i, j \in 1..Len(diagnostics.value) :
          /\ i < j
          /\ diagnostics.value[i].title = PowerOversteerRule.name
          /\ diagnostics.value[i].severity = "CRITICAL"
          /\ diagnostics.value[j].title = engine.rules[1].name
          /\ diagnostics.value[j].severity = "WARNING"

(***************************************************************************)
(* The server: telemetry_loop and handle_client are two tasks of one       *)
(* asyncio event loop.  A task that runs keeps the event loop until its    *)
(* next await; every step below is the code between two awaits, except     *)
(* that add_sample is taken line by line, so that a handler that could run *)
(* inside it would be seen.                                                *)
(***************************************************************************)
MaxIterations == 2
MaxReconnectDelay == 10

LapInProgress ==
    Drive(<<Batch(OnLap(Record("ENTRY", "understeer"), 1), MinLapSamples + 1)>>)

\* the positions of telemetry_loop at which it is suspended in an await
AwaitPoints == {"top", "read", "pace"}
\* its positions inside add_sample
InsideAddSample == {"add_sample:append", "add_sample:new_lap", "add_sample:vehicle"}

MsgTypes == {"get_status", "get_recommendations", "get_summary", "ping"}

\* a preemptive scheduler: any task runs at any time
MayRunAnytime(s, task) == s.running \in {"none", "telemetry_loop", "handle_client"}

\* the event loop: a task is resumed only when no task runs, and the task
\* that runs goes on until it awaits
MayRun(s, task) == s.running \in {"none", task}

InitServer ==
    /\ analyzer \in {NewAnalyzer, LapInProgress}
    /\ recommendations = NoRecommendations
    /\ NewTelemetry
    /\ NewOthers

\* if not self.rf2.connected: connect() succeeds, await self.broadcast(...),
\* or fails, await asyncio.sleep(reconnect_delay) and continue
LoopConnect ==
    /\ MayRun(server, "telemetry_loop")
    /\ server.loop_pc = "top"
    /\ ~server.connected
    /\ \E success \in BOOLEAN :
          server' = IF success
                    THEN [server EXCEPT !.connected = TRUE, !.reconnect_delay = 1,
                                        !.loop_pc = "read", !.running = "none"]
                    ELSE [server EXCEPT !.reconnect_delay =
                                            IF 2 * @ < MaxReconnectDelay
                                            THEN 2 * @ ELSE MaxReconnectDelay,
                                        !.running = "none"]
    /\ UNCHANGED <<setup_analyzer, telemetry, rule_engine, telemetry_analyzer>>

\* data = self.rf2.read_all(): it raises (except Exception: disconnect, await
\* asyncio.sleep(1)), or there is no telemetry (await asyncio.sleep(0.1)), or
\* there is telemetry and add_sample is entered
LoopRead ==
    /\ MayRun(server, "telemetry_loop")
    /\ server.connected
    /\ server.loop_pc \in {"top", "read"}
    /\ \/ server' = [server EXCEPT !.connected = FALSE, !.loop_pc = "top",
                                   !.running = "none"]
       \/ server' = [server EXCEPT !.loop_pc = "pace", !.running = "none"]
       \/ /\ server.iterations < MaxIterations
          /\ \E lap \in {analyzer.current_lap, analyzer.current_lap + 1} :
                /\ lap \in 1..MaxLap
                /\ server' = [server EXCEPT
                                 !.data = OnLap(Record("ENTRY", "understeer"), lap),
                                 !.iterations = @ + 1,
                                 !.loop_pc = "add_sample:append",
                                 !.running = "telemetry_loop"]
    /\ UNCHANGED <<setup_analyzer, telemetry, rule_engine, telemetry_analyzer>>

AddSampleAppend ==
    /\ MayRun(server, "telemetry_loop")
    /\ server.loop_pc = "add_sample:append"
    /\ analyzer' = BufferSample(analyzer, server.data)
    /\ server' = [server EXCEPT !.loop_pc = "add_sample:new_lap",
                                !.running = "telemetry_loop"]
    /\ UNCHANGED <<recommendations, telemetry, rule_engine, telemetry_analyzer>>

AddSampleNewLap ==
    /\ MayRun(server, "telemetry_loop")
    /\ server.loop_pc = "add_sample:new_lap"
    /\ analyzer' = DetectNewLap(analyzer, server.data)
    /\ server' = [server EXCEPT !.loop_pc = "add_sample:vehicle",
                                !.running = "telemetry_loop"]
    /\ UNCHANGED <<recommendations, telemetry, rule_engine, telemetry_analyzer>>

\* the last line of add_sample: the call has returned
AddSampleVehicle ==
    /\ MayRun(server, "telemetry_loop")
    /\ server.loop_pc = "add_sample:vehicle"
    /\ analyzer' = UpdateVehicle(analyzer, server.data)
    /\ server' = [server EXCEPT !.loop_pc = "broadcast",
                                !.running = "telemetry_loop",
                                !.settled = add_sample(@, server.data, 1)]
    /\ UNCHANGED <<recommendations, telemetry, rule_engine, telemetry_analyzer>>

\* if now - last_broadcast >= broadcast_interval: the summary is added to
\* the broadcast when it is ready, await self.broadcast(...); otherwise the
\* loop goes on to await asyncio.sleep(0.001)
LoopBroadcast ==
    /\ MayRun(server, "telemetry_loop")
    /\ server.loop_pc = "broadcast"
    /\ \E due \in BOOLEAN :
          server' = IF due
                    THEN [server EXCEPT
                             !.broadcast = IF get_summary(analyzer).status = "ready"
                                           THEN <<get_summary(analyzer)>> ELSE << >>,
                             !.data = NoData,
                             !.loop_pc = "pace", !.running = "none"]
                    ELSE [server EXCEPT !.data = NoData,
                                        !.loop_pc = "top", !.running = "none"]
    /\ UNCHANGED <<setup_analyzer, telemetry, rule_engine, telemetry_analyzer>>

\* await asyncio.sleep(0.001)
LoopPace ==
    /\ MayRun(server, "telemetry_loop")
    /\ server.loop_pc = "pace"
    /\ server' = [server EXCEPT !.loop_pc = "top", !.running = "none"]
    /\ UNCHANGED <<setup_analyzer, telemetry, rule_engine, telemetry_analyzer>>

Observed(type, value) ==
    [type |-> type, loop_pc |-> server.loop_pc, value |-> value,
     seen |-> analyzer, settled |-> server.settled]

\* handle_message up to its await websocket.send(...)
HandleMessage ==
    /\ MayRun(server, "handle_client")
    /\ server.client_pc = "receive"
    /\ \E msg_type \in MsgTypes :
          \/ /\ msg_type = "get_status"
             /\ server' = [server EXCEPT !.client_pc = "send", !.running = "none",
                              !.observed = Observed("status", <<server.connected>>)]
             /\ UNCHANGED recommendations
          \/ /\ msg_type = "get_recommendations"
             /\ recommendations' = [called |-> TRUE] @@ generate_recommendations(analyzer)
             /\ server' = [server EXCEPT !.client_pc = "send", !.running = "none",
                              !.observed = Observed("recommendations",
                                                    recommendations'.returned)]
          \/ /\ msg_type = "get_summary"
             /\ server' = [server EXCEPT !.client_pc = "send", !.running = "none",
                              !.observed = Observed("summary", <<get_summary(analyzer)>>)]
             /\ UNCHANGED recommendations
          \/ /\ msg_type = "ping"
             /\ server' = [server EXCEPT !.client_pc = "send", !.running = "none",
                              !.observed = Observed("pong", << >>)]
             /\ UNCHANGED recommendations
    /\ UNCHANGED <<analyzer, telemetry, rule_engine, telemetry_analyzer>>

\* the send is done and handle_client waits for the next message
SendDone ==
    /\ MayRun(server, "handle_client")
    /\ server.client_pc = "send"
    /\ server' = [server EXCEPT !.client_pc = "receive", !.running = "none"]
    /\ UNCHANGED <<setup_analyzer, telemetry, rule_engine, telemetry_analyzer>>

NextServer ==
    \/ LoopConnect
    \/ LoopRead
    \/ AddSampleAppend
    \/ AddSampleNewLap
    \/ AddSampleVehicle
    \/ LoopBroadcast
    \/ LoopPace
    \/ HandleMessage
    \/ SendDone

SpecServer == InitServer /\ [][NextServer]_vars

\* C16: the telemetry loop and the client handlers interleave only at the
\* awaits: whatever a handler read, it read while telemetry_loop was
\* suspended in an await, outside add_sample, and the analyzer it read was
\* the analyzer as the completed add_sample calls had left it; the summary
\* and the recommendations it sent are those of that analyzer.  The lines
\* of add_sample together do what the call does.
C16_InterleaveAtAwaitsOnly ==
    /\ server.observed.type # "None" =>
          /\ server.observed.loop_pc \in AwaitPoints
          /\ server.observed.loop_pc \notin InsideAddSample
          /\ server.observed.seen = server.observed.settled
    /\ server.observed.type = "summary" =>
          server.observed.value = <<get_summary(server.observed.settled)>>
    /\ server.observed.type = "recommendations" =>
          server.observed.value = generate_recommendations(server.observed.settled).returned
    /\ server.running = "none" => analyzer = server.settled
    /\ server.loop_pc = "broadcast" => analyzer = server.settled

\* a handler has sent a ready summary, with a detected problem, of the lap
\* that the add_sample before it had completed, while the telemetry loop
\* was suspended in its broadcast of the same sample
C16_Witness ==
    /\ server.observed.type = "summary"
    /\ server.observed.loop_pc = "pace"
    /\ server.client_pc = "send"
    /\ server.iterations > 0
    /\ server.observed.value[1].status = "ready"
    /\ server.observed.value[1].problems # << >>
    /\ server.broadcast = server.observed.value
    /\ analyzer.current_lap = 2
    /\ Count(analyzer.current_lap_samples) = 0

(***************************************************************************)
(* Sessions analysed again.  The laps of the model have eight points, 50 m *)
(* and a quarter of a second apart; a layout says which of them turn.      *)
(***************************************************************************)
MaxCalls == 3
MaxInstances == 2

StraightPoint == [CalmPoint EXCEPT !.steering = 0, !.g_lat = 0, !.throttle = 100]
LeftPoint == [PushPoint EXCEPT !.steering = -40]

TrackPoint(point, i) ==
    [distance |-> 50 * i, timestamp |-> i,
     speed |-> IF is_turning(point) THEN 60 + 10 * i ELSE 220,
     brake |-> 0, g_long |-> 0] @@ point

Lap(layout, lap_time, is_valid) ==
    [lap_time |-> lap_time, is_valid |-> is_valid,
     data_points |-> [i \in 1..Len(layout) |-> TrackPoint(layout[i], i)]]

\* a corner at the beginning of the lap, at its end, a corner of one point
\* (a quarter of a second), and a corner that the lap ends in
EarlyCorner ==
    <<StraightPoint, PushPoint, PushPoint, PushPoint, StraightPoint,
      StraightPoint, StraightPoint, StraightPoint>>
LateCorner ==
    <<StraightPoint, StraightPoint, StraightPoint, StraightPoint,
      LeftPoint, LeftPoint, LeftPoint, StraightPoint>>
BriefCorner ==
    <<StraightPoint, StraightPoint, PushPoint, StraightPoint,
      StraightPoint, StraightPoint, StraightPoint, StraightPoint>>
OpenCorner ==
    <<StraightPoint, StraightPoint, StraightPoint, StraightPoint,
      StraightPoint, StraightPoint, LeftPoint, LeftPoint>>

FastLapTime == 9000
SlowLapTime == 9100

LapSessions ==
    [Early |-> [laps |-> <<Lap(EarlyCorner, FastLapTime, TRUE)>>],
     Late |-> [laps |-> <<Lap(LateCorner, FastLapTime, TRUE)>>],
     Brief |-> [laps |-> <<Lap(BriefCorner, FastLapTime, TRUE)>>],
     Open |-> [laps |-> <<Lap(OpenCorner, FastLapTime, TRUE)>>],
     Invalid |-> [laps |-> <<Lap(EarlyCorner, FastLapTime, FALSE)>>],
     BestSecond |-> [laps |-> <<Lap(LateCorner, SlowLapTime, TRUE),
                                Lap(EarlyCorner, FastLapTime, TRUE)>>],
     Tie |-> [laps |-> <<Lap(LateCorner, FastLapTime, TRUE),
                         Lap(EarlyCorner, FastLapTime, TRUE)>>],
     Empty |-> [laps |-> << >>]]

SessionNames == DOMAIN LapSessions

InitSession ==
    /\ analyzer = NewAnalyzer
    /\ recommendations = NoRecommendations
    /\ NewTelemetry
    /\ NewOthers

\* self.analyzer.analyze_session(session), on the analyzer in use
AnalyzeSession ==
    /\ Len(telemetry_analyzer.calls) < MaxCalls
    /\ \E name \in SessionNames :
          \E r \in {TelemetryAnalyzer_analyze_session(telemetry_analyzer.self,
                                                      LapSessions[name])} :
             telemetry_analyzer' =
                [telemetry_analyzer EXCEPT
                    !.self = r.self,
                    !.calls = Append(@, [instance |-> telemetry_analyzer.instance,
                                         session |-> name,
                                         corners |-> r.corners,
                                         stats |-> r.stats])]
    /\ UNCHANGED <<setup_analyzer, telemetry, rule_engine, server>>

\* TelemetryAnalyzer(): a fresh analyzer is taken into use
NewInstance ==
    /\ telemetry_analyzer.instance < MaxInstances
    /\ telemetry_analyzer' = [telemetry_analyzer EXCEPT !.self = NewTelemetryAnalyzer,
                                                        !.instance = @ + 1]
    /\ UNCHANGED <<setup_analyzer, telemetry, rule_engine, server>>

NextSession == AnalyzeSession \/ NewInstance

SpecSession == InitSession /\ [][NextSession]_vars

SameOutputs(a, b) == a.corners = b.corners /\ a.stats = b.stats

\* C11: two calls of analyze_session on the same session, on the same
\* analyzer instance or the second one on a fresh instance, give equal
\* CornerAnalysis lists and equal BehaviorStatistics.
C11_ReanalysisIdentical ==
    \A i, j \in 1..Len(telemetry_analyzer.calls) :
        telemetry_analyzer.calls[i].session = telemetry_analyzer.calls[j].session
            => SameOutputs(telemetry_analyzer.calls[i], telemetry_analyzer.calls[j])

\* the first call on an instance is a call on a fresh analyzer
OnFresh(calls, i) == i = 1 \/ calls[i - 1].instance # calls[i].instance

\* what does hold: two calls on fresh analyzers agree
ReanalysisOnFreshIdentical ==
    \A i, j \in 1..Len(telemetry_analyzer.calls) :
        /\ telemetry_analyzer.calls[i].session = telemetry_analyzer.calls[j].session
        /\ OnFresh(telemetry_analyzer.calls, i)
        /\ OnFresh(telemetry_analyzer.calls, j)
        => SameOutputs(telemetry_analyzer.calls[i], telemetry_analyzer.calls[j])

(***************************************************************************)
(* SpecCorners: the corners of a reference lap.  A fresh analyzer analyses *)
(* a session of one valid lap, whose points are straight, turn right or    *)
(* turn left, a quarter of a second and 50 m apart; the speed of a point   *)
(* depends on its place in the lap and is not monotone.                    *)
(***************************************************************************)
MaxLapPoints == 6

SpeedAt(i) == 70 + 10 * ((i * i) % 5)

LayoutPoint(point, i) ==
    [distance |-> 50 * i, timestamp |-> i, speed |-> SpeedAt(i),
     brake |-> 0, g_long |-> 0] @@ point

LayoutLap(layout) ==
    [lap_time |-> FastLapTime, is_valid |-> TRUE,
     data_points |-> [i \in 1..Len(layout) |-> LayoutPoint(layout[i], i)]]

Layouts == [1..MaxLapPoints -> {StraightPoint, PushPoint, LeftPoint}]

InitCorners ==
    /\ analyzer = NewAnalyzer
    /\ recommendations = NoRecommendations
    /\ NewTelemetry
    /\ NewOthers

\* analyze_session of a fresh analyzer on a session of one lap
AnalyzeReferenceLap ==
    /\ telemetry_analyzer.calls = << >>
    /\ \E layout \in Layouts :
          \E r \in {TelemetryAnalyzer_analyze_session(telemetry_analyzer.self,
                                                      [laps |-> <<LayoutLap(layout)>>])} :
             telemetry_analyzer' =
                [telemetry_analyzer EXCEPT
                    !.self = r.self,
                    !.calls = Append(@, [instance |-> telemetry_analyzer.instance,
                                         session |-> [laps |-> <<LayoutLap(layout)>>],
                                         corners |-> r.corners,
                                         stats |-> r.stats])]
    /\ UNCHANGED <<setup_analyzer, telemetry, rule_engine, server>>

NextCorners == AnalyzeReferenceLap

SpecCorners == InitCorners /\ [][NextCorners]_vars

\* the maximal runs of turning points, as <<first, last>> pairs of indexes
TurningRuns(points) ==
    {run \in (1..Len(points)) \X (1..Len(points)) :
        /\ run[1] <= run[2]
        /\ \A i \in run[1]..run[2] : is_turning(points[i])
        /\ run[1] = 1 \/ ~is_turning(points[run[1] - 1])
        /\ run[2] = Len(points) \/ ~is_turning(points[run[2] + 1])}

\* the runs that last at least 0.5 s, two quarters, from their first to
\* their last turning point
LongTurningRuns(points) ==
    {run \in TurningRuns(points) :
        points[run[2]].timestamp - points[run[1]].timestamp >= 2}

\* the index of the first point of lowest speed in the run
ApexOf(points, run) ==
    CHOOSE i \in run[1]..run[2] :
        /\ \A j \in run[1]..run[2] : points[i].speed <= points[j].speed
        /\ \A j \in run[1]..(i - 1) : points[j].speed > points[i].speed

\* the reference lap of the call that was made
ReferencePoints == telemetry_analyzer.calls[1].session.laps[1].data_points

\* C21: every maximal run of turning points of the reference lap that lasts
\* at least 0.5 s from its first to its last turning point gives exactly one
\* corner definition, with ids 1, 2, ... in track order and the apex at the
\* point of lowest speed, wherever in the lap the run lies; a shorter run
\* gives none.
C21_OneCornerPerLongRun ==
    telemetry_analyzer.calls # << >> =>
        /\ Len(telemetry_analyzer.self.track_corners)
              = Cardinality(LongTurningRuns(ReferencePoints))
        /\ \A k \in 1..Len(telemetry_analyzer.self.track_corners) :
              /\ telemetry_analyzer.self.track_corners[k].corner_id = k
              /\ \E run \in LongTurningRuns(ReferencePoints) :
                    /\ Cardinality({other \in LongTurningRuns(ReferencePoints) :
                                       other[1] <= run[1]}) = k
                    /\ telemetry_analyzer.self.track_corners[k].start_distance
                          = ReferencePoints[run[1]].distance
                    /\ telemetry_analyzer.self.track_corners[k].apex_distance
                          = ReferencePoints[ApexOf(ReferencePoints, run)].distance

\* what does hold: the corners are the runs that a straight point closes, of
\* at least 0.5 s from their first turning point to that straight point
ClosedRuns(points) ==
    {run \in TurningRuns(points) :
        /\ run[2] < Len(points)
        /\ points[run[2] + 1].timestamp - points[run[1]].timestamp >= 2}

CornersAreClosedRuns ==
    telemetry_analyzer.calls # << >> =>
        /\ Len(telemetry_analyzer.self.track_corners)
              = Cardinality(ClosedRuns(ReferencePoints))
        /\ \A k \in 1..Len(telemetry_analyzer.self.track_corners) :
              /\ telemetry_analyzer.self.track_corners[k].corner_id = k
              /\ \E run \in ClosedRuns(ReferencePoints) :
                    /\ Cardinality({other \in ClosedRuns(ReferencePoints) :
                                       other[1] <= run[1]}) = k
                    /\ telemetry_analyzer.self.track_corners[k].start_distance
                          = ReferencePoints[run[1]].distance
                    /\ telemetry_analyzer.self.track_corners[k].apex_distance
                          = ReferencePoints[ApexOf(ReferencePoints, run)].distance
                    /\ telemetry_analyzer.self.track_corners[k].end_distance
                          = ReferencePoints[run[2] + 1].distance

(***************************************************************************)
(* The corner definitions behind the analyses of a session (SpecSession).  *)
(***************************************************************************)
\* the fields of a CornerAnalysis that come from its CornerDefinition
DefinitionOf(corner) ==
    [corner_id |-> corner.corner_id,
     start_distance |-> corner.start_distance,
     apex_distance |-> corner.apex_distance,
     end_distance |-> corner.end_distance,
     direction |-> corner.direction,
     corner_type |-> corner.corner_type]

\* the corners segmented from the best valid lap of the session
OwnCorners(session) ==
    _detect_track_corners(NewTelemetryAnalyzer, best_valid_lap(session)).track_corners

UsesOwnCorners(call) ==
    \A k \in 1..Len(call.corners) :
        \E d \in 1..Len(OwnCorners(LapSessions[call.session])) :
            DefinitionOf(call.corners[k]) = OwnCorners(LapSessions[call.session])[d]

\* C22: the corner definitions behind the corner analyses of a session are
\* the ones segmented from the best valid lap of that session, also when
\* the analyzer instance has analysed another session before.
C22_CornersOfOwnBestLap ==
    \A i \in 1..Len(telemetry_analyzer.calls) :
        UsesOwnCorners(telemetry_analyzer.calls[i])

\* what does hold: the first session with corners that an instance analyses
\* is analysed with its own corners
FirstWithCorners(calls, i) ==
    \A j \in 1..(i - 1) :
        calls[j].instance = calls[i].instance
            => OwnCorners(LapSessions[calls[j].session]) = << >>

FirstSessionUsesOwnCorners ==
    \A i \in 1..Len(telemetry_analyzer.calls) :
        FirstWithCorners(telemetry_analyzer.calls, i)
            => UsesOwnCorners(telemetry_analyzer.calls[i])

(***************************************************************************)
(* The samples behind a lap analysis (SpecBuffer).                         *)
(***************************************************************************)
\* C23: every LapAnalysis is computed from samples of the analysed lap only:
\* no sample of its buffer carries another lap number.
C23_SamplesOfAnalysedLapOnly ==
    \A i \in 1..Len(analyzer.lap_analyses) :
        \A k \in 1..Len(analyzer.lap_analyses[i].samples) :
            analyzer.lap_analyses[i].samples[k].sample.lap_number
                = analyzer.lap_analyses[i].lap_number

\* what does hold: the last sample of the buffer of an analysis is the one
\* that opened the next lap, and the samples before it are of the analysed lap
LastSampleOpensNextLap ==
    \A i \in 1..Len(analyzer.lap_analyses) :
        LET samples == analyzer.lap_analyses[i].samples
        IN  /\ samples[Len(samples)].n = 1
            /\ samples[Len(samples)].sample.lap_number # analyzer.lap_analyses[i].lap_number
            /\ \A k \in 1..(Len(samples) - 1) :
                  samples[k].sample.lap_number = analyzer.lap_analyses[i].lap_number

(***************************************************************************)
(* SpecPhases: the analysis of one corner, through analyze_session.  A     *)
(* fresh analyzer analyses a session of one valid lap: MaxCornerPoints     *)
(* turning points, then a straight point that closes the corner.  The      *)
(* turning points push a little or a lot, saturate the steering, slide at  *)
(* the rear, swing the steering to the other side, spin the rear wheels or *)
(* steer 22 or 24 degrees off throttle.                                    *)
(***************************************************************************)
MaxCornerPoints == 4

HalfPushPoint == [CalmPoint EXCEPT !.slip_angle = <<150, 150, 20, 20>>]
SwingPoint == [CalmPoint EXCEPT !.steering = -40]
Steer22Point == [CalmPoint EXCEPT !.steering = 22, !.throttle = 0]
Steer24Point == [CalmPoint EXCEPT !.steering = 24, !.throttle = 0]

PhasePoints ==
    {PushPoint, HalfPushPoint, SaturatedPoint, LoosePoint, SwingPoint, MildSpinPoint,
     Steer22Point, Steer24Point}

CornerLayouts ==
    {turning \o <<StraightPoint>> : turning \in [1..MaxCornerPoints -> PhasePoints]}

InitPhases ==
    /\ analyzer = NewAnalyzer
    /\ recommendations = NoRecommendations
    /\ NewTelemetry
    /\ NewOthers

\* analyze_session of a fresh analyzer on a session of one lap; the call is
\* recorded with the points of the lap as _detect_corner_phases leaves them
AnalyzeCornerLap ==
    /\ telemetry_analyzer.calls = << >>
    /\ \E layout \in CornerLayouts :
          \E r \in {TelemetryAnalyzer_analyze_session(telemetry_analyzer.self,
                                                      [laps |-> <<LayoutLap(layout)>>])} :
             telemetry_analyzer' =
                [telemetry_analyzer EXCEPT
                    !.self = r.self,
                    !.calls = Append(@, [instance |-> telemetry_analyzer.instance,
                                         session |-> [laps |-> <<LayoutLap(layout)>>],
                                         corners |-> r.corners,
                                         stats |-> r.stats,
                                         points |-> _detect_corner_phases(
                                                        LayoutLap(layout).data_points)])]
    /\ UNCHANGED <<setup_analyzer, telemetry, rule_engine, server>>

NextPhases == AnalyzeCornerLap

SpecPhases == InitPhases /\ [][NextPhases]_vars

Analysed == telemetry_analyzer.calls # << >>

\* the corner analysis of the call that was made, and the points it is made
\* from: the points of the lap, which all lie in the corner, with the phases
\* that the call has given them
TheCorner == telemetry_analyzer.calls[1].corners[1]

ThePoints == telemetry_analyzer.calls[1].points

OneCornerOfAllPoints ==
    Analysed =>
        /\ Len(telemetry_analyzer.calls[1].corners) = 1
        /\ TheCorner.start_distance = ReferencePoints[1].distance
        /\ TheCorner.end_distance = ReferencePoints[Len(ReferencePoints)].distance

\* throttle > 50 and the larger rear |slip ratio| > 0.15
SpinsRearWheels(point) ==
    /\ point.throttle > 50
    /\ \/ Abs(point.slip_ratio_rl) > 150
       \/ Abs(point.slip_ratio_rr) > 150

Spinning == {i \in 1..Len(ThePoints) : SpinsRearWheels(ThePoints[i])}

\* C24: a corner is marked as affected by traction loss if and only if at
\* least 3 of its samples have throttle > 50 and a rear slip ratio of more
\* than 0.15 in magnitude.
C24_TractionLossFromThreeSamples ==
    Analysed => (TheCorner.traction_loss_detected <=> Cardinality(Spinning) >= 3)

\* what does hold: traction loss is marked from the fourth such sample on
TractionLossFromFourSamples ==
    Analysed => (TheCorner.traction_loss_detected <=> Cardinality(Spinning) > 3)

(***************************************************************************)
(* SpecLockup: wheel lock-up under braking, in both analyzers.  The        *)
(* SetupAnalyzer is fed braking and entry samples on which no wheel, one   *)
(* wheel at the threshold or one wheel beyond it turns too slowly, then    *)
(* the first sample of the next lap.  The TelemetryAnalyzer analyses a     *)
(* session of one lap of braking points, each with one wheel at or beyond  *)
(* the threshold of the slip ratio, with the brake at 30 or 31 percent.    *)
(* A behaviour follows one analyzer or the other.                          *)
(***************************************************************************)
MaxBrakeBatches == 2
MaxBrakePoints == 3

\* a record on which the given wheel turns at the given rate; the slip ratio
\* is 0 at 200, -0.1 at 180 and -0.15 at 170
SlowWheel(data, wheel, rotation) == [data EXCEPT !.rotation[wheel] = rotation]

BrakeRecords ==
    {SlowWheel(InPhase(BaseRecord, phase), wheel, rotation) :
        phase \in {"BRAKING", "ENTRY"}, wheel \in 1..4, rotation \in {200, 180, 170}}

\* a point under braking with the slip ratio of one wheel set
BrakePoint(brake, wheel, ratio) ==
    [StraightPoint EXCEPT !.throttle = 0]
    @@ [brake |-> brake, g_long |-> -100,
        slip_ratio_fl |-> IF wheel = 1 THEN ratio ELSE 0,
        slip_ratio_fr |-> IF wheel = 2 THEN ratio ELSE 0]

BrakePointOn(brake, wheel, ratio) ==
    [BrakePoint(brake, wheel, ratio)
        EXCEPT !.slip_ratio_rl = IF wheel = 3 THEN ratio ELSE 0,
               !.slip_ratio_rr = IF wheel = 4 THEN ratio ELSE 0]

BrakePoints ==
    {BrakePointOn(brake, wheel, ratio) :
        brake \in {30, 31}, wheel \in 1..4, ratio \in {-200, -250}}

BrakeLap(points) ==
    [lap_time |-> FastLapTime, is_valid |-> TRUE,
     data_points |-> [i \in 1..Len(points) |->
                         [distance |-> 50 * i, timestamp |-> i, speed |-> 220] @@ points[i]]]

BrakeLaps == {BrakeLap(points) : points \in [1..MaxBrakePoints -> BrakePoints]}

\* the brake-lock part of _calculate_lap_behavior: the lap with its
\* brake_lock_percentage
_calculate_lap_behavior(lap) ==
    LET brake_lock_points ==
            SelectSeq(lap.data_points,
                      LAMBDA point : /\ point.brake > 30
                                     /\ Min(point.slip_ratio_fl, point.slip_ratio_fr) < -200)
    IN  IF lap.data_points = << >> THEN lap
        ELSE [brake_lock_percentage |->
                 Frac(100 * Len(brake_lock_points), Len(lap.data_points))] @@ lap

\* the valid laps of the session as analyze_session leaves them
LapsAfterAnalysis(session) ==
    [i \in 1..Len(valid_laps(session)) |->
        _calculate_lap_behavior(
            [valid_laps(session)[i]
                EXCEPT !.data_points = _detect_corner_phases(@)])]

InitLockup ==
    /\ analyzer = Drive(<<Batch(BaseRecord, 1)>>)
    /\ recommendations = NoRecommendations
    /\ NewTelemetry
    /\ NewOthers

\* add_sample, SmallBatch times, with a sample under braking
FeedBraking ==
    \E data \in BrakeRecords :
        /\ telemetry_analyzer.calls = << >>
        /\ analyzer.current_lap = 1
        /\ Count(analyzer.current_lap_samples) < MaxBrakeBatches * SmallBatch
        /\ AddSample(OnLap(data, 1), SmallBatch)

\* add_sample with the first sample of lap 2
CompleteBrakingLap ==
    /\ telemetry_analyzer.calls = << >>
    /\ analyzer.current_lap = 1
    /\ AddSample(OnLap(BaseRecord, 2), 1)

\* analyze_session of a fresh analyzer on a session of one braking lap
AnalyzeBrakingLap ==
    /\ telemetry_analyzer.calls = << >>
    /\ analyzer = Drive(<<Batch(BaseRecord, 1)>>)
    /\ \E lap \in BrakeLaps :
          \E r \in {TelemetryAnalyzer_analyze_session(telemetry_analyzer.self,
                                                      [laps |-> <<lap>>])} :
             telemetry_analyzer' =
                [telemetry_analyzer EXCEPT
                    !.self = r.self,
                    !.calls = Append(@, [instance |-> telemetry_analyzer.instance,
                                         session |-> [laps |-> <<lap>>],
                                         corners |-> r.corners,
                                         stats |-> r.stats,
                                         laps |-> LapsAfterAnalysis([laps |-> <<lap>>])])]
    /\ UNCHANGED <<setup_analyzer, telemetry, rule_engine, server>>

NextLockup == FeedBraking \/ CompleteBrakingLap \/ AnalyzeBrakingLap

SpecLockup == InitLockup /\ [][NextLockup]_vars

\* the slip ratio of some wheel of the sample is below -0.1
AnyWheelLocked(sample) == \E wheel \in 1..4 : sample.slip_ratio[wheel] < -100

\* the number of samples of the buffer that satisfy P
CountOf(runs, P(_)) ==
    SeqSum([i \in 1..Len(runs) |-> IF P(runs[i].sample) THEN runs[i].n ELSE 0])

\* the coarse path: lockup_pct is the share of the braking and entry samples
\* on which some wheel is below -0.1
CoarseCountsAnyWheel ==
    \A i \in 1..Len(analyzer.lap_analyses) :
        LET samples == analyzer.lap_analyses[i].samples
            braking == CountOf(samples, LAMBDA s : s.phase \in {"BRAKING", "ENTRY"})
            locked == CountOf(samples, LAMBDA s : /\ s.phase \in {"BRAKING", "ENTRY"}
                                                   /\ AnyWheelLocked(s))
        IN  braking > 0 => REq(analyzer.lap_analyses[i].lockup_pct, Frac(locked, braking))

\* the slip ratio of some wheel of the point is below -0.20
AnyWheelLockedHard(point) ==
    \/ point.slip_ratio_fl < -200
    \/ point.slip_ratio_fr < -200
    \/ point.slip_ratio_rl < -200
    \/ point.slip_ratio_rr < -200

\* the fine path: brake_lock_percentage is the share of the points of the lap
\* that have brake > 30 and some wheel below -0.20
FineCountsAnyWheel ==
    \A i \in 1..Len(telemetry_analyzer.calls) :
        LET points == telemetry_analyzer.calls[i].session.laps[1].data_points
            locked == {k \in 1..Len(points) :
                          points[k].brake > 30 /\ AnyWheelLockedHard(points[k])}
        IN  REq(telemetry_analyzer.calls[i].laps[1].brake_lock_percentage,
                Frac(100 * Cardinality(locked), Len(points)))

\* C25: a braking sample counts as a lock-up whenever the slip ratio of any
\* of the four wheels is below the threshold: -0.1 for the samples in the
\* braking or entry phase of the SetupAnalyzer, -0.20 for the points with
\* brake > 30 of the TelemetryAnalyzer.
C25_LockupOnAnyWheel == CoarseCountsAnyWheel /\ FineCountsAnyWheel

\* what does hold on the fine path: the front wheels alone are looked at
FineCountsFrontWheels ==
    \A i \in 1..Len(telemetry_analyzer.calls) :
        LET points == telemetry_analyzer.calls[i].session.laps[1].data_points
            locked == {k \in 1..Len(points) :
                          /\ points[k].brake > 30
                          /\ \/ points[k].slip_ratio_fl < -200
                             \/ points[k].slip_ratio_fr < -200}
        IN  REq(telemetry_analyzer.calls[i].laps[1].brake_lock_percentage,
                Frac(100 * Cardinality(locked), Len(points)))

(***************************************************************************)
(* The merge of the two heuristics of a behaviour (SpecPhases).  A finding *)
(* is the severity that one heuristic gives one sample, with the phase of  *)
(* the sample and its place in the order of evaluation: the samples by the *)
(* slip-angle differential first, then the samples by the other heuristic. *)
(***************************************************************************)
Finding(place, severity, phase) == [place |-> place, severity |-> severity, phase |-> phase]

UndersteerFindings(points) ==
    {Finding(i, SlipSeverity(FrontMinusRear(points[i])), points[i].corner_phase) :
        i \in {k \in 1..Len(points) : FrontMinusRear(points[k]) > 160}}
    \cup
    {Finding(Len(points) + i,
             Frac(50 * Abs(points[i].steering) - 30 * Abs(points[i].g_lat),
                  Abs(points[i].steering)),
             points[i].corner_phase) :
        i \in {k \in 1..Len(points) :
                  /\ Abs(points[k].steering) > 60
                  /\ Abs(points[k].g_lat) < 100
                  /\ 6 * Abs(points[k].g_lat) < 7 * Abs(points[k].steering)}}

OversteerFindings(points) ==
    {Finding(i, SlipSeverity(-FrontMinusRear(points[i])), points[i].corner_phase) :
        i \in {k \in 1..Len(points) : -FrontMinusRear(points[k]) > 160}}
    \cup
    {Finding(Len(points) + i,
             RMin100(Frac(Abs(points[i].steering - points[i - 1].steering), 1)),
             points[i].corner_phase) :
        i \in {k \in 2..Len(points) :
                  /\ points[k - 1].steering * points[k].steering < 0
                  /\ Abs(points[k].g_lat) > 50}}

\* the findings of the highest severity
Worst(findings) == {f \in findings : \A g \in findings : RLe(g.severity, f.severity)}

\* the one that was found first
FirstWorst(findings) ==
    CHOOSE f \in Worst(findings) : \A g \in Worst(findings) : f.place <= g.place

MaxAndFirstPhase(findings, severity, phase) ==
    IF findings = {} THEN REq(severity, Frac(0, 1)) /\ phase = "None"
    ELSE /\ REq(severity, FirstWorst(findings).severity)
         /\ phase = FirstWorst(findings).phase

\* C26: the understeer (resp. oversteer) severity of a corner is the maximum
\* of the severities that the two heuristics give its samples, and the worst
\* phase is the phase of the sample at which that maximum was first reached
\* in the order of evaluation; without a qualifying sample it is None.
C26_MaxSeverityFirstPhase ==
    Analysed =>
        /\ MaxAndFirstPhase(UndersteerFindings(ThePoints),
                            TheCorner.understeer_severity, TheCorner.understeer_phase)
        /\ MaxAndFirstPhase(OversteerFindings(ThePoints),
                            TheCorner.oversteer_severity, TheCorner.oversteer_phase)

\* a corner where both understeer heuristics reach the same highest severity
\* on samples of different phases, and one with two swings of the steering
C26_Witness ==
    /\ Analysed
    /\ \E f, g \in Worst(UndersteerFindings(ThePoints)) :
          /\ f.place <= Len(ThePoints) /\ g.place > Len(ThePoints)
          /\ f.phase # g.phase
          /\ TheCorner.understeer_phase = f.phase
    /\ \E f, g \in OversteerFindings(ThePoints) :
          f.place > Len(ThePoints) /\ g.place > f.place

(***************************************************************************)
(* The turn-in rule of the phase cascade (SpecPhases).                     *)
(***************************************************************************)
\* the rules of the cascade after the turn-in rule
LaterRules(point) ==
    IF Abs(point.g_lat) > 80 /\ point.throttle < 50 /\ point.brake < 10 THEN "APEX"
    ELSE IF Abs(point.g_lat) > 50 /\ Abs(point.steering) > 15 THEN "MID_CORNER"
    ELSE IF point.throttle > 30 /\ Abs(point.steering) > 10 /\ point.g_long > 0 THEN "EXIT"
    ELSE IF point.throttle > 80 /\ Abs(point.steering) < 10 THEN "ACCELERATION"
    ELSE "APPROACH"

\* the sample is not matched by the brake-zone or trail-brake rules, and has
\* |steer| > 20 degrees, throttle < 30 and brake < 30
TurnInCandidate(point) ==
    /\ ~(point.brake > 50 /\ point.g_long < -50)
    /\ ~(point.brake > 10 /\ point.brake <= 50 /\ Abs(point.steering) > 10)
    /\ Abs(point.steering) > 20
    /\ point.throttle < 30
    /\ point.brake < 30

\* how much |steer| has risen from the previous sample to sample i > 1
SteerRise(points, i) == Abs(points[i].steering) - Abs(points[i - 1].steering)

\* C27 as claimed: a candidate sample whose |steer| is greater than that of
\* the previous sample is labelled turn-in; when the steer is not increasing,
\* or the sample is the first of the lap, the later rules decide.
C27_TurnInOnAnyRise ==
    Analysed =>
        \A i \in 1..Len(ThePoints) :
            TurnInCandidate(ThePoints[i]) =>
                ThePoints[i].corner_phase =
                    IF i > 1 /\ SteerRise(ThePoints, i) > 0 THEN "TURN_IN"
                    ELSE LaterRules(ThePoints[i])

\* C27: a candidate sample whose |steer| is more than 2 degrees greater than
\* that of the previous sample is labelled turn-in; when the steer has not
\* risen by more than 2 degrees, or the sample is the first of the lap, the
\* later rules decide.
C27_TurnInOnRiseAboveTwoDegrees ==
    Analysed =>
        \A i \in 1..Len(ThePoints) :
            TurnInCandidate(ThePoints[i]) =>
                ThePoints[i].corner_phase =
                    IF i > 1 /\ SteerRise(ThePoints, i) > 2 THEN "TURN_IN"
                    ELSE LaterRules(ThePoints[i])

\* a lap that begins with a candidate, has a candidate after a rise of 2
\* degrees, both left to the later rules, and a turn-in after a larger rise
C27_Witness ==
    /\ Analysed
    /\ TurnInCandidate(ThePoints[1]) /\ ThePoints[1].corner_phase = "APEX"
    /\ \E i \in 2..Len(ThePoints) :
          /\ TurnInCandidate(ThePoints[i]) /\ SteerRise(ThePoints, i) = 2
          /\ ThePoints[i].corner_phase = "APEX"
    /\ \E i \in 2..Len(ThePoints) :
          /\ TurnInCandidate(ThePoints[i]) /\ SteerRise(ThePoints, i) > 2
          /\ ThePoints[i].corner_phase = "TURN_IN"

(***************************************************************************)
(* Behaviour that was not detected (SpecPhases).                           *)
(***************************************************************************)
\* C28: a CornerAnalysis whose understeer was not detected has understeer
\* severity 0 and no understeer phase, and likewise for oversteer and for
\* traction loss.
C28_UndetectedHasNoSeverity ==
    Analysed =>
        /\ ~TheCorner.understeer_detected =>
              /\ REq(TheCorner.understeer_severity, Frac(0, 1))
              /\ TheCorner.understeer_phase = "None"
        /\ ~TheCorner.oversteer_detected =>
              /\ REq(TheCorner.oversteer_severity, Frac(0, 1))
              /\ TheCorner.oversteer_phase = "None"
        /\ ~TheCorner.traction_loss_detected =>
              REq(TheCorner.traction_loss_severity, Frac(0, 1))

\* what does hold: the severities are those of the findings, detected or not
SeverityWhateverTheCount ==
    Analysed =>
        (Spinning # {} => RLt(Frac(0, 1), TheCorner.traction_loss_severity))

(***************************************************************************)
(* SpecClamp: the values that the rules recommend.  A setup of this        *)
(* specification carries the values that the rules read: percentages in    *)
(* tenths of a percent, anti-roll bars, damper clicks, wing and traction   *)
(* control as whole numbers.  Several values lie beyond the limits that    *)
(* the rules clamp to.  A value of a recommendation is the number the rule *)
(* gives with its format: "int" for a number as it is, ".1f%" for a        *)
(* percentage written with one decimal (the number in tenths), ".0f%" for  *)
(* a percentage written without decimals.                                  *)
(***************************************************************************)
\* round(x / 10) to the nearest whole number, halves to the even one, as the
\* format .0f does, for x >= 0 in tenths
RoundHalfEven(tenths) ==
    LET whole == tenths \div 10
        rest == tenths % 10
    IN  IF rest < 5 THEN whole
        ELSE IF rest > 5 THEN whole + 1
        ELSE IF whole % 2 = 0 THEN whole ELSE whole + 1

AsInt(n) == [format |-> "int", number |-> n]
OneDecimal(tenths) == [format |-> ".1f%", number |-> tenths]
NoDecimal(tenths) == [format |-> ".0f%", number |-> RoundHalfEven(tenths)]

\* the tuple that get_recommendations appends, as add_recommendation stores it
Recommend(parameter, current, recommended, direction, amount) ==
    [parameter |-> parameter, current_value |-> current, recommended_value |-> recommended,
     change_direction |-> direction, change_amount |-> amount]

UndersteerEntryRule ==
    [id |-> "understeer_entry", name |-> "Understeer on Entry", category |-> "BALANCE",
     severity |-> "WARNING", problem_type |-> "UNDERSTEER_ENTRY", corner_phase |-> "ENTRY",
     keywords |-> {<<"understeer", "entry">>, <<"push", "entry">>,
                   <<"sous-virage", "entree">>}]

\* UndersterrEntryRule.get_recommendations
UndersteerEntryValues(setup) ==
    (IF setup.suspension # << >>
     THEN <<Recommend("Front ARB", AsInt(setup.suspension[1].front_arb),
                      AsInt(Max(0, setup.suspension[1].front_arb - 2)),
                      "decrease", "2-3 clicks"),
            Recommend("Rear ARB", AsInt(setup.suspension[1].rear_arb),
                      AsInt(Min(20, setup.suspension[1].rear_arb + 2)),
                      "increase", "2-3 clicks")>>
     ELSE << >>)
    \o (IF setup.brakes # << >>
        THEN <<Recommend("Brake Bias", OneDecimal(setup.brakes[1].bias),
                         OneDecimal(Max(500, setup.brakes[1].bias - 20)),
                         "decrease", "-1-2%")>>
        ELSE << >>)
    \o (IF setup.differential # << >>
        THEN <<Recommend("Diff Coast Lock", NoDecimal(setup.differential[1].coast_lock),
                         NoDecimal(Max(100, setup.differential[1].coast_lock - 100)),
                         "decrease", "-5-10%")>>
        ELSE << >>)

\* RearLockupRule.get_recommendations
RearLockupValues(setup) ==
    (IF setup.brakes # << >>
     THEN <<Recommend("Brake Bias", OneDecimal(setup.brakes[1].bias),
                      OneDecimal(Min(650, setup.brakes[1].bias + 40)),
                      "increase", "+3-4%")>>
     ELSE << >>)
    \o (IF setup.differential # << >>
        THEN <<Recommend("Diff Coast Lock", NoDecimal(setup.differential[1].coast_lock),
                         NoDecimal(Min(800, setup.differential[1].coast_lock + 150)),
                         "increase", "+10-15%")>>
        ELSE << >>)
    \o (IF setup.suspension # << >>
        THEN <<Recommend("Rear ARB", AsInt(setup.suspension[1].rear_arb),
                         AsInt(Max(0, setup.suspension[1].rear_arb - 2)),
                         "decrease", "2-3 clicks")>>
        ELSE << >>)

\* PowerOversteerRule.get_recommendations
PowerOversteerValues(setup) ==
    (IF setup.differential # << >>
     THEN <<Recommend("Diff Power Lock", NoDecimal(setup.differential[1].power_lock),
                      NoDecimal(Max(150, setup.differential[1].power_lock - 200)),
                      "decrease", "-15-20%")>>
     ELSE << >>)
    \o <<Recommend("Traction Control", AsInt(setup.traction_control),
                   AsInt(Min(10, setup.traction_control + 3)), "increase", "+2-3")>>
    \o (IF setup.suspension # << >>
        THEN <<Recommend("Rear ARB", AsInt(setup.suspension[1].rear_arb),
                         AsInt(Max(0, setup.suspension[1].rear_arb - 3)),
                         "decrease", "3-4 clicks"),
               Recommend("Rear Slow Bump", AsInt(setup.suspension[1].slow_bump),
                         AsInt(Min(20, setup.suspension[1].slow_bump + 2)),
                         "increase", "+2 clicks")>>
        ELSE << >>)
    \o (IF setup.aero # << >>
        THEN <<Recommend("Rear Wing", AsInt(setup.aero[1].rear_wing),
                         AsInt(Min(40, setup.aero[1].rear_wing + 3)),
                         "increase", "+2-3")>>
        ELSE << >>)

\* rule.evaluate(context) with the values of the recommendations
evaluate_with_values(rule, context) ==
    CASE rule.id = "understeer_entry" ->
            Created(rule, UndersteerEntryValues(context.setup), context)
      [] rule.id = "rear_lockup" ->
            Escalated(rule, RearLockupValues(context.setup), context)
      [] rule.id = "power_oversteer" ->
            Escalated(rule, PowerOversteerValues(context.setup), context)

ValuedRules == {UndersteerEntryRule, RearLockupRule, PowerOversteerRule}

Optional(S) == {<< >>} \cup {<<x>> : x \in S}

ValuedSetups ==
    [brakes : Optional([bias : {480, 520, 650, 700}]),
     differential : Optional([coast_lock : {50, 845, 900}, power_lock : {100, 350, 505}]),
     suspension : Optional([front_arb : {0, 1, 10}, rear_arb : {0, 2, 25},
                            slow_bump : {5, 22}]),
     aero : Optional([rear_wing : {10, 45}]),
     traction_control : {0, 8, 12}]

ValuedFeedbacks ==
    {<<"understeer", "entry">>, <<"rear", "lock">>, <<"power", "oversteer">>, <<"fine">>}

InitClamp ==
    /\ analyzer = NewAnalyzer
    /\ recommendations = NoRecommendations
    /\ NewTelemetry
    /\ NewOthers

\* rule.evaluate(context), once
EvaluateRule ==
    \E rule \in ValuedRules, setup \in ValuedSetups, feedback \in ValuedFeedbacks :
        /\ diagnostics = NoDiagnostics
        /\ diagnostics' =
              [op |-> "rule.evaluate",
               value |-> evaluate_with_values(rule, [setup |-> setup,
                                                     driver_feedback |-> feedback])]
        /\ UNCHANGED <<setup_analyzer, telemetry, engine, server, telemetry_analyzer>>

NextClamp == EvaluateRule

SpecClamp == InitClamp /\ [][NextClamp]_vars

\* the direction label agrees with the change of the value
LabelAgrees(rec) ==
    /\ rec.change_direction = "decrease"
          => rec.recommended_value.number <= rec.current_value.number
    /\ rec.change_direction = "increase"
          => rec.recommended_value.number >= rec.current_value.number

\* C29: in every recommendation that a rule emits, "decrease" goes with a
\* recommended value not above the current one and "increase" with one not
\* below it, for every setup value, also beyond the limits the rule clamps to.
C29_DirectionAgreesWithChange ==
    \A i \in 1..Len(diagnostics.value) :
        \A k \in 1..Len(diagnostics.value[i].recommendations) :
            LabelAgrees(diagnostics.value[i].recommendations[k])

\* the limits that the rules clamp each parameter to, in the unit of the value
ClampLimits(parameter) ==
    CASE parameter = "Front ARB" -> [low |-> 0, high |-> 20]
      [] parameter = "Rear ARB" -> [low |-> 0, high |-> 20]
      [] parameter = "Brake Bias" -> [low |-> 500, high |-> 650]
      [] parameter = "Diff Coast Lock" -> [low |-> 10, high |-> 80]
      [] parameter = "Diff Power Lock" -> [low |-> 15, high |-> 100]
      [] parameter = "Traction Control" -> [low |-> 0, high |-> 10]
      [] parameter = "Rear Slow Bump" -> [low |-> 0, high |-> 20]
      [] parameter = "Rear Wing" -> [low |-> 0, high |-> 40]

\* what does hold: the label agrees for a current value within the limits
DirectionAgreesWithinLimits ==
    \A i \in 1..Len(diagnostics.value) :
        \A k \in 1..Len(diagnostics.value[i].recommendations) :
            LET rec == diagnostics.value[i].recommendations[k]
            IN  /\ ClampLimits(rec.parameter).low <= rec.current_value.number
                /\ rec.current_value.number <= ClampLimits(rec.parameter).high
                => LabelAgrees(rec)

(***************************************************************************)
(* SpecEngine: RecommendationEngine.analyze_and_recommend.  The engine     *)
(* owns its TelemetryAnalyzer (telemetry_analyzer.self) and a new          *)
(* SetupCorrelator.  A point of a session carries, next to the fields of a *)
(* lap point, the temperatures of its four tires (degrees); a              *)
(* CornerAnalysis carries the averages of the front and of the rear        *)
(* temperatures.  A setup is None (the empty sequence) or a sequence of    *)
(* one element, the set of its sections that are not None.  The call ends  *)
(* with an AnalysisResult, of which the model carries the recommendations  *)
(* (title, priority, category and the corner they are about), or with the  *)
(* exception that Python raises.                                           *)
(***************************************************************************)
MaxEnginePoints == 4
MaxEngineLaps == 2

\* DiagnosticCategory and the fields of ParameterRecommendation, all of
\* them without a default
DiagnosticCategory ==
    {"BALANCE", "TRACTION", "BRAKING", "TIRE", "SUSPENSION", "AERO", "DIFFERENTIAL"}

ParameterRecommendationFields ==
    {"parameter", "current_value", "recommended_value", "change_direction",
     "change_amount", "confidence", "explanation"}

\* the call of a dataclass with keyword arguments: every keyword is a field
\* and every field without a default is given, or a TypeError
Constructs(fields, keywords) == keywords \subseteq fields /\ fields \subseteq keywords

UNDERSTEER_THRESHOLD == FFromInt(30)
OVERSTEER_THRESHOLD == FFromInt(30)
TRACTION_LOSS_THRESHOLD == FFromInt(20)
Fifty == FFromInt(50)
Twenty == FFromInt(20)
ThirtyFive == FFromInt(35)
SixtyFive == FFromInt(65)
Seventy == FFromInt(70)

\* tire_temp_front_avg and tire_temp_rear_avg of _analyze_single_corner
TireTempAverage(points, first, second) ==
    IF points = << >> THEN FZero
    ELSE FDiv(FSum([i \in 1..Len(points) |->
                       FDiv(FFromInt(points[i][first] + points[i][second]), FFromInt(2))]),
              FFromInt(Len(points)))

TireTempAverages(points) ==
    [tire_temp_front_avg |->
        TireTempAverage(SelectSeq(points, LAMBDA p : p.tire_temp_fl > 0),
                        "tire_temp_fl", "tire_temp_fr"),
     tire_temp_rear_avg |->
        TireTempAverage(SelectSeq(points, LAMBDA p : p.tire_temp_rl > 0),
                        "tire_temp_rl", "tire_temp_rr")]

\* _analyze_lap_corners with the tire temperatures of each CornerAnalysis
RECURSIVE LapCornersWithTemps(_, _, _)
LapCornersWithTemps(track_corners, data_points, i) ==
    IF i > Len(track_corners) THEN << >>
    ELSE LET corner_points ==
                 SelectSeq(data_points,
                           LAMBDA p : /\ track_corners[i].start_distance <= p.distance
                                      /\ p.distance <= track_corners[i].end_distance)
         IN  (IF corner_points = << >> THEN << >>
              ELSE <<CornerAnalysis(track_corners[i], corner_points)
                     @@ TireTempAverages(corner_points)>>)
             \o LapCornersWithTemps(track_corners, data_points, i + 1)

\* lap.corners of the valid laps from lap i on, as the loop of
\* analyze_session sets them
RECURSIVE LapCorners(_, _, _)
LapCorners(self, laps, i) ==
    IF i > Len(laps) THEN << >>
    ELSE <<IF self.track_corners = << >> \/ laps[i].data_points = << >> THEN << >>
           ELSE LapCornersWithTemps(self.track_corners,
                                    _detect_corner_phases(laps[i].data_points), 1)>>
         \o LapCorners(self, laps, i + 1)

RECURSIVE Flatten(_)
Flatten(lists) == IF lists = << >> THEN << >> ELSE lists[1] \o Flatten(Tail(lists))

SeverityValue(severity) == Decimal(severity[1], severity[2])

\* _calculate_phase_balance, and _calculate_type_balance which calls it
_calculate_phase_balance(corners) ==
    IF corners = << >> THEN Fifty
    ELSE TheOne({IF FIsZero(FAdd(sums[1], sums[2])) THEN Fifty
                 ELSE FAdd(Fifty, FDiv(FSub(sums[2], sums[1]),
                                       FFromInt(Len(corners) * 2))) :
                 sums \in {<<FSum([i \in 1..Len(corners) |->
                                     SeverityValue(corners[i].understeer_severity)]),
                             FSum([i \in 1..Len(corners) |->
                                     SeverityValue(corners[i].oversteer_severity)])>>}})

\* min(100, max(0, (avg - 70) * 2))
TireStress(avg) ==
    TheOne({IF FSign(v) <= 0 THEN FZero ELSE FMin(Hundred, v) :
            v \in {FMul(FSub(avg, Seventy), FFromInt(2))}})

Mean(values) == FDiv(FSum(values), FFromInt(Len(values)))

\* the tire stress of _calculate_behavior_statistics: both 0.0 unless some
\* corner has front temperatures and some corner has rear temperatures
TireStresses(corners) ==
    LET front == SelectSeq(corners, LAMBDA c : FSign(c.tire_temp_front_avg) > 0)
        rear == SelectSeq(corners, LAMBDA c : FSign(c.tire_temp_rear_avg) > 0)
    IN  IF front = << >> \/ rear = << >>
        THEN [front_tire_stress |-> FZero, rear_tire_stress |-> FZero]
        ELSE [front_tire_stress |->
                 TireStress(Mean([i \in 1..Len(front) |-> front[i].tire_temp_front_avg])),
              rear_tire_stress |->
                 TireStress(Mean([i \in 1..Len(rear) |-> rear[i].tire_temp_rear_avg]))]

\* the statistics of _calculate_behavior_statistics that the engine reads
BehaviorStatistics(corners) ==
    _calculate_behavior_statistics(corners)
    @@ [entry_balance |->
           _calculate_phase_balance(
               SelectSeq(corners, LAMBDA c : \/ c.understeer_phase = "TURN_IN"
                                             \/ c.oversteer_phase = "TURN_IN")),
        exit_balance |->
           _calculate_phase_balance(
               SelectSeq(corners, LAMBDA c : \/ c.understeer_phase = "EXIT"
                                             \/ c.oversteer_phase = "EXIT")),
        slow_corner_balance |->
           _calculate_phase_balance(SelectSeq(corners, LAMBDA c : c.corner_type = "SLOW")),
        fast_corner_balance |->
           _calculate_phase_balance(
               SelectSeq(corners, LAMBDA c : c.corner_type \in {"FAST", "VERY_FAST"}))]
    @@ TireStresses(corners)

\* analyze_session as the engine sees it: the analyzer afterwards, the
\* corners of each valid lap and the statistics
EngineAnalysis(self, session) ==
    TheOne({[self |-> analyzer_after,
             lap_corners |-> LapCorners(analyzer_after, valid_laps(session), 1)] :
            analyzer_after \in {WithTrackCorners(self, session)}})

\* _identify_problem_corners: the corners met in at least two laps with an
\* issue in more than half of them, in the order the dict met them; the sort
\* by time_loss is stable and no corner of the analyzer has a time_loss
NumberOf(corners, corner_id, Issue(_)) ==
    Len(SelectSeq(corners, LAMBDA c : c.corner_id = corner_id /\ Issue(c)))

_identify_problem_corners(lap_corners) ==
    LET all == Flatten(lap_corners)
        firsts == SelectSeq([i \in 1..Len(all) |-> i],
                            LAMBDA i : \A j \in 1..(i - 1) :
                                          all[j].corner_id # all[i].corner_id)
        Everyone(c) == TRUE
        Understeers(c) == c.understeer_detected
        Oversteers(c) == c.oversteer_detected
        LosesTraction(c) == c.traction_loss_detected
        lap_count(i) == NumberOf(all, all[i].corner_id, Everyone)
        issues(i) == Max(Max(NumberOf(all, all[i].corner_id, Understeers),
                             NumberOf(all, all[i].corner_id, Oversteers)),
                         NumberOf(all, all[i].corner_id, LosesTraction))
        problems == SelectSeq(firsts, LAMBDA i : /\ lap_count(i) >= 2
                                                 /\ 2 * issues(i) > lap_count(i))
    IN  [k \in 1..Min(Len(problems), 5) |-> all[problems[k]]]

\* the keyword arguments the generators give to ParameterRecommendation
GeneralKeywords == {"parameter_name", "direction", "suggested_change", "reason"}
CornerKeywords == {"parameter_name", "direction", "suggested_change"}

Block(fires, sections, title, priority, category) ==
    [fires |-> fires, sections |-> sections, keywords |-> GeneralKeywords,
     title |-> title, priority |-> priority, category |-> category, corner |-> 0]

\* one round of the loop of _generate_corner_specific_recommendations
CornerBlock(corner) ==
    [fires |-> TRUE, sections |-> {"suspension"}, keywords |-> CornerKeywords,
     title |-> "Probleme au", priority |-> "MEDIUM", category |-> "BALANCE",
     corner |-> corner.corner_id]

\* the places of _generate_recommendations that build a SetupRecommendation,
\* in the order they are reached: whether the condition holds, the sections
\* of the setup that make the place build its ParameterRecommendations, and
\* the title, priority and category it gives
Blocks(behavior, problem_corners) ==
    <<Block(FLt(UNDERSTEER_THRESHOLD, behavior.understeer_tendency), {"suspension", "aero"},
            "Reduire le sous-virage",
            IF FLt(Fifty, behavior.understeer_tendency) THEN "HIGH" ELSE "MEDIUM",
            "BALANCE"),
      Block(FLt(OVERSTEER_THRESHOLD, behavior.oversteer_tendency), {"suspension", "aero"},
            "Reduire le survirage",
            IF FLt(Fifty, behavior.oversteer_tendency) THEN "HIGH" ELSE "MEDIUM",
            "BALANCE"),
      Block(FLt(behavior.entry_balance, ThirtyFive), {"brakes"},
            "Sous-virage en entree de virage", "MEDIUM", "BALANCE"),
      Block(/\ ~FLt(behavior.entry_balance, ThirtyFive)
            /\ FLt(SixtyFive, behavior.entry_balance), {"brakes"},
            "Survirage en entree de virage", "MEDIUM", "BALANCE"),
      Block(FLt(behavior.exit_balance, ThirtyFive), {"differential"},
            "Sous-virage en sortie de virage", "MEDIUM", "BALANCE"),
      Block(FLt(behavior.slow_corner_balance, ThirtyFive), {"suspension"},
            "Sous-virage en virage lent", "LOW", "BALANCE"),
      Block(FLt(SixtyFive, behavior.fast_corner_balance), {"aero", "suspension"},
            "Instabilite en virage rapide", "HIGH", "STABILITY"),
      Block(FLt(TRACTION_LOSS_THRESHOLD, behavior.traction_on_throttle), {"differential", "suspension"},
            "Perte de traction a l'acceleration", "HIGH", "TRACTION")>>
    \o [k \in 1..Min(Len(problem_corners), 3) |-> CornerBlock(problem_corners[k])]
    \o <<Block(FLt(Twenty, FAbs(FSub(behavior.front_tire_stress,
                                     behavior.rear_tire_stress))),
               {"suspension"},
               IF FLt(behavior.rear_tire_stress, behavior.front_tire_stress)
               THEN "Usure excessive pneus avant" ELSE "Usure excessive pneus arriere",
               "MEDIUM", "TIRE_WEAR")>>

RecommendationPriority ==
    [CRITICAL |-> 1, HIGH |-> 2, MEDIUM |-> 3, LOW |-> 4, OPTIONAL |-> 5]

\* recommendations.sort(key=lambda r: r.priority.value): a stable sort
SortedByPriority(recs) ==
    Flatten([value \in 1..5 |->
                SelectSeq(recs, LAMBDA r : RecommendationPriority[r.priority] = value)])

\* _generate_recommendations from block i on: a block whose condition holds
\* builds its ParameterRecommendations for a setup with one of its sections
\* and then its SetupRecommendation with its category; the correlator of a
\* new engine has no session and gives no recommendation
RECURSIVE _generate_recommendations(_, _, _, _)
_generate_recommendations(blocks, setup, i, recs) ==
    IF i > Len(blocks)
    THEN [outcome |-> "AnalysisResult", raised_by |-> "",
          recommendations |-> SortedByPriority(recs)]
    ELSE IF ~blocks[i].fires THEN _generate_recommendations(blocks, setup, i + 1, recs)
    ELSE IF /\ setup # << >>
            /\ blocks[i].sections \cap setup[1] # {}
            /\ ~Constructs(ParameterRecommendationFields, blocks[i].keywords)
    THEN [outcome |-> "TypeError", raised_by |-> blocks[i].title,
          recommendations |-> << >>]
    ELSE IF blocks[i].category \notin DiagnosticCategory
    THEN [outcome |-> "AttributeError", raised_by |-> blocks[i].title,
          recommendations |-> << >>]
    ELSE _generate_recommendations(
             blocks, setup, i + 1,
             Append(recs, [title |-> blocks[i].title, priority |-> blocks[i].priority,
                           category |-> blocks[i].category,
                           corner |-> blocks[i].corner]))

\* a lap of the sessions of this specification: a straight, the points of a
\* corner and a straight, at a pace added to the speeds of the layout, with
\* the same temperatures all along
EnginePoint(point, i, pace, temps) ==
    [LayoutPoint(point, i) EXCEPT !.speed = @ + pace]
    @@ [tire_temp_fl |-> temps[1], tire_temp_fr |-> temps[1],
        tire_temp_rl |-> temps[2], tire_temp_rr |-> temps[2]]

EngineLap(layout, pace, temps) ==
    [lap_time |-> FastLapTime, is_valid |-> TRUE,
     data_points |-> [i \in 1..Len(layout) |-> EnginePoint(layout[i], i, pace, temps)]]

EngineLayouts ==
    {<<StraightPoint>> \o turning \o <<StraightPoint>> :
        turning \in [1..MaxEnginePoints -> {CalmPoint, PushPoint, LoosePoint, MildSpinPoint}]}

Paces == {0, 100}
Temperatures == {<<0, 0>>, <<100, 70>>}
Sections == {"suspension", "aero", "brakes", "differential"}
EngineSetups == {<< >>} \cup {<<sections>> : sections \in SUBSET Sections}

InitEngine ==
    /\ analyzer = NewAnalyzer
    /\ recommendations = NoRecommendations
    /\ NewTelemetry
    /\ NewOthers

\* analyze_and_recommend of a new engine: analyze_session, which leaves its
\* corners in the analyzer and in the laps, _identify_problem_corners,
\* _generate_recommendations and the AnalysisResult
AnalyzeAndRecommend ==
    /\ diagnostics = NoDiagnostics
    /\ \E layout \in EngineLayouts, pace \in Paces, temps \in Temperatures,
          laps \in 1..MaxEngineLaps :
          \E session \in {[laps |-> [k \in 1..laps |-> EngineLap(layout, pace, temps)]]} :
             \E r \in {EngineAnalysis(telemetry_analyzer.self, session)} :
                \E behavior \in {BehaviorStatistics(Flatten(r.lap_corners))},
                   problem_corners \in {_identify_problem_corners(r.lap_corners)} :
                   \E blocks \in {Blocks(behavior, problem_corners)} :
                      \E setup \in EngineSetups :
                         /\ telemetry_analyzer' = [telemetry_analyzer EXCEPT !.self = r.self]
                         /\ diagnostics' =
                               [op |-> "analyze_and_recommend",
                                value |-> [session |-> session,
                                           setup |-> setup,
                                           behavior |-> behavior,
                                           problem_corners |-> problem_corners,
                                           result |-> _generate_recommendations(
                                                          blocks, setup, 1, << >>)]]
    /\ UNCHANGED <<setup_analyzer, telemetry, engine, server>>

NextEngine == AnalyzeAndRecommend

SpecEngine == InitEngine /\ [][NextEngine]_vars

Recommended == diagnostics.op = "analyze_and_recommend"

\* C30: analyze_and_recommend returns an AnalysisResult, without ending in
\* an error, for every session and every setup: every diagnostic category
\* and every field of a parameter recommendation that it uses is one that
\* the diagnostic entities define
C30_AlwaysReturnsAnalysisResult ==
    Recommended => diagnostics.value.result.outcome = "AnalysisResult"

\* what holds instead: a TypeError is raised only for a setup with a section,
\* whose values make a generator build a ParameterRecommendation, and an
\* AttributeError only where a generator names STABILITY or TIRE_WEAR
ErrorsComeFromUndefinedNames ==
    Recommended =>
        /\ diagnostics.value.result.outcome \in {"AnalysisResult", "TypeError", "AttributeError"}
        /\ diagnostics.value.result.outcome = "TypeError" =>
              /\ diagnostics.value.setup # << >>
              /\ diagnostics.value.setup[1] # {}
        /\ diagnostics.value.result.outcome = "AttributeError" =>
              diagnostics.value.result.raised_by \in
                 {"Instabilite en virage rapide", "Usure excessive pneus avant",
                  "Usure excessive pneus arriere"}
        /\ diagnostics.value.setup = << >> /\ diagnostics.value.result.outcome = "AnalysisResult"
              => \A i \in 1..Len(diagnostics.value.result.recommendations) :
                    diagnostics.value.result.recommendations[i].category \in DiagnosticCategory

====
